---- MODULE Spec2Model ----
(***************************************************************************)
(* Model of the capture-to-delivery data plane of web-moniter:             *)
(*   - Tracker  (packages/core):     metric buffer, sampling, enrichment,  *)
(*                                   flush and requeue on failure          *)
(*   - Reporter (packages/reporter): transport chain fetch / beacon / img  *)
(*   - NetworkPlugin (packages/plugins): fetch and XHR hooks that turn an  *)
(*                                   exchange into a record and a metric   *)
(* One Tracker and one Reporter instance are modelled.  JavaScript runs    *)
(* each handler to completion, so every handler is one atomic action; a    *)
(* fetch started by the Reporter stays in `pending` until the environment  *)
(* settles it (FetchSettle), which runs the Reporter's finally block and   *)
(* the Tracker's catch handler.                                            *)
(*                                                                         *)
(* Specifications:                                                         *)
(*   Spec          the Tracker with its Reporter, driven through the       *)
(*                 Tracker (send, flush, setReporter, setConfig)           *)
(*   SpecReporter  the Reporter driven directly by the host                *)
(*   SpecEnrich    Tracker.send with every kind of source metric           *)
(*   SpecLifecycle construction, plugins and teardown, for a host that     *)
(*                 drives a Tracker of its own or the WebMoniter facade    *)
(*                 (packages/web-moniter)                                  *)
(*   SpecUsage     the same host with every construction configuration     *)
(*                 and with configuration updates                          *)
(*   SpecFilter    the NetworkPlugin (packages/plugins) registered on the  *)
(*                 Tracker: request filtering of the fetch and XHR hooks   *)
(*   SpecExchange  the NetworkPlugin: one monitored exchange from the hook *)
(*                 to the record, the NetworkReporter and Tracker.send     *)
(*   SpecReporterLive  SpecReporter where every fetch the Reporter started *)
(*                 is eventually settled by the environment                *)
(*   SpecConsole   Tracker, Reporter and the JSErrorPlugin's console.error *)
(*                 hook; SpecConsoleLive settles every started fetch       *)
(*   SpecRegistry  Tracker.use and Tracker.destroy with plugin classes     *)
(*                 that may share a name                                   *)
(*   SpecTransparent  the fetch proxy seen from the calling host           *)
(*   SpecPerformance  the PerformancePlugin's report triggers and destroy  *)
(*   SpecCleanup   NetworkPlugin init, enable and destroy on the globals   *)
(***************************************************************************)
EXTENDS Integers, Sequences, FiniteSets, TLC

(* ------------------------------ bounds -------------------------------- *)
\* metrics the host submits to the Tracker in one behaviour
MaxMetrics == 3
\* setConfig calls (Tracker.setConfig and Reporter.setConfig) in one behaviour
MaxConfigCalls == 1
\* largest maxCache the host configures through setConfig
MaxCacheCfg == 2
\* metrics carried by one Tracker.send call
MaxBatch == 2
\* plugin instances Tracker.use constructs in one behaviour
MaxPlugins == 2
\* plugin constructors passed to one Tracker.use call
MaxUse == 2
\* metrics a host submits in one behaviour of the lifecycle specifications
MaxLifeMetrics == 2
\* calls of NetworkPlugin.destroy on the one plugin instance
MaxDestroy == 2

(* ------------------------- program constants -------------------------- *)
\* DEFAULT_CONFIG.maxCache, also the fallback of `this.config.maxCache || 50`
DefaultMaxCache == 50
\* DEFAULT_CONFIG.sampleRate (1.0) and the fallback of `sampleRate || 1.0`,
\* in tenths
DefaultSampleRate == 10

(* --------------------------- value domains ---------------------------- *)
\* `undefined` for string-valued fields; "" is the empty (falsy) string
Undef == "undefined"
\* `undefined` for number-valued fields
UndefNum == 0 - 1
Falsy(s) == s = Undef \/ s = ""
FalsyNum(n) == n = UndefNum \/ n = 0

\* Math.random() lies in [0,1); draws and rates are in tenths
Draws == {0, 5}
Rates == {0, 5, 10}
\* the Reporter is created with "u1"; the host reconfigures to "u2"
Urls == {"u2"}

Project == "proj"
SessionId == "sess-1"
PageHref == "page-href"
ConfigVersion == "1.0"

\* What the host puts on a metric before Tracker.send.
SourceMetrics ==
  { [name |-> "bare", sessionId |-> Undef, timestamp |-> UndefNum,
     pageUrl |-> Undef, project |-> Undef, appVersion |-> Undef],
    [name |-> "full", sessionId |-> "src-sess", timestamp |-> 7,
     pageUrl |-> "src-page", project |-> "src-proj", appVersion |-> "src-ver"],
    [name |-> "zero", sessionId |-> Undef, timestamp |-> 0,
     pageUrl |-> "", project |-> Project, appVersion |-> Undef] }

\* the metric a host hands to Reporter.send directly (not through a Tracker)
DirectMetric ==
  [id |-> 0, src |-> "full", sessionId |-> "src-sess", timestamp |-> 7,
   pageUrl |-> "src-page", project |-> "src-proj", appVersion |-> "src-ver"]

Min(a, b) == IF a <= b THEN a ELSE b
Prefix(s, n) == SubSeq(s, 1, Min(Len(s), n))
Ids(s) == { s[i].id : i \in DOMAIN s }

VARIABLES
  config,       \* Tracker.config
  metricCache,  \* Tracker.metricCache
  reporterSet,  \* whether Tracker.reporter is attached
  rConfig,      \* Reporter.config
  isSending,    \* Reporter.isSending
  destroyed,    \* Reporter.destroyed
  pending,      \* fetches started by the Reporter and not yet settled
  cfgCalls,     \* number of setConfig calls made so far
  nextId,       \* identity of the next metric object the host creates
  hist,         \* per metric: outcome of the latest Reporter.send call that
                \* carried it (last) and of the one before that (prev)
  dropped,      \* metrics cut off by the capacity truncation of a requeue
  last,         \* what the last handler did
  host,         \* the API the host page drives: "tracker" or "facade"
  made,         \* which of the Tracker and the Reporter have been constructed
  initialized,  \* WebMoniter.initialized
  plugins,      \* Tracker.plugins, in the insertion order of the Map
  instances,    \* every plugin instance constructed by Tracker.use, with the
                \* number of times its destroy was invoked
  trackerDestroyed, \* whether Tracker.destroy has run on the current Tracker
  netPlugin,    \* the NetworkPlugin: whether it is registered, its options,
                \* which of fetch and XMLHttpRequest it has patched
  exchange,     \* the network exchange (one fetch call or one XHR send) the
                \* page makes: what the hooks saw and did
  reports,      \* the calls of the completion callback for that exchange:
                \* the record passed and what NetworkReporter did with it
  perfPlugin    \* the PerformancePlugin: its options, the listeners it has
                \* on window and document, its eventHandlers list, its timer

\* the state of the lifecycle: construction, plugins, teardown
lifeVars == << host, made, initialized, plugins, instances, trackerDestroyed >>

\* the state of the plugins that patch or listen to the page
netVars == << netPlugin, exchange, reports, perfPlugin >>

vars == << config, metricCache, reporterSet, rConfig, isSending, destroyed,
           pending, cfgCalls, nextId, hist, dropped, last, lifeVars,
           netVars >>


(* ============================ Reporter ================================ *)
\* The browser as one Reporter.send call finds it: whether
\* navigator.sendBeacon exists, what it returns, whether building the
\* image request throws.
Env == [beaconAvail : BOOLEAN, beaconOk : BOOLEAN, imageThrows : BOOLEAN]
\* Tracker.flush passes immediately = true, so the browser state above is
\* never consulted on that path.
AnyEnv == [beaconAvail |-> TRUE, beaconOk |-> TRUE, imageThrows |-> FALSE]

\* The answer of one Reporter.send call: the transports it attempted, in
\* order, and how its promise stands when the call returns:
\*   "destroyed" "nourl" "empty" "busy"  resolved without any attempt
\*   "pending"                           a fetch is outstanding
\*   "resolved" / "rejected"             settled by beacon or image
Answer(ts, o) == [transports |-> ts, outcome |-> o]

SendImage(env) ==
  IF env.imageThrows THEN Answer(<<"image">>, "rejected")
  ELSE Answer(<<"image">>, "resolved")

SendBeacon(env) ==
  IF ~env.beaconAvail THEN SendImage(env)
  ELSE IF ~env.beaconOk
    THEN LET r == SendImage(env)
         IN Answer(<<"beacon">> \o r.transports, r.outcome)
  ELSE Answer(<<"beacon">>, "resolved")

\* as SendImmediate, but without the isSending guard
SendImmediateNoGuard == Answer(<<"fetch">>, "pending")

SendImmediate ==
  IF isSending THEN Answer(<<>>, "busy")
  ELSE Answer(<<"fetch">>, "pending")

\* as ReporterSend, but a destroyed Reporter still delivers
ReporterSendAfterDestroy(data, immediately, env) ==
  LET a == IF Falsy(rConfig.reportUrl) THEN Answer(<<>>, "nourl")
           ELSE IF Len(data) = 0 THEN Answer(<<>>, "empty")
           ELSE IF immediately \/ rConfig.reportImmediately THEN SendImmediate
           ELSE SendBeacon(env)
  IN [batch |-> data, immediately |-> immediately, env |-> env,
      transports |-> a.transports, outcome |-> a.outcome]

\* as ReporterSend, but only the argument selects the blocking transport
ReporterSendArgOnly(data, immediately, env) ==
  LET a == IF destroyed THEN Answer(<<>>, "destroyed")
           ELSE IF Falsy(rConfig.reportUrl) THEN Answer(<<>>, "nourl")
           ELSE IF Len(data) = 0 THEN Answer(<<>>, "empty")
           ELSE IF immediately THEN SendImmediate
           ELSE SendBeacon(env)
  IN [batch |-> data, immediately |-> immediately, env |-> env,
      transports |-> a.transports, outcome |-> a.outcome]

ReporterSend(data, immediately, env) ==
  LET a == IF destroyed THEN Answer(<<>>, "destroyed")
           ELSE IF Falsy(rConfig.reportUrl) THEN Answer(<<>>, "nourl")
           ELSE IF Len(data) = 0 THEN Answer(<<>>, "empty")
           ELSE IF immediately \/ rConfig.reportImmediately THEN SendImmediate
           ELSE SendBeacon(env)
  IN [batch |-> data, immediately |-> immediately, env |-> env,
      transports |-> a.transports, outcome |-> a.outcome]

(* ============================= Tracker ================================ *)
\* this.config.maxCache || 50
MaxCacheOr50 ==
  IF config.maxCache = 0 THEN DefaultMaxCache ELSE config.maxCache

\* this.config.sampleRate || 1.0
SampleRateOr1 ==
  IF config.sampleRate = 0 THEN DefaultSampleRate ELSE config.sampleRate

\* as ShouldSample, but every call is let through
ShouldSampleAlways(draw) == TRUE

ShouldSample(draw) == draw < SampleRateOr1

\* Date.now(): a logical clock that advances with every metric created
DateNow == 1000 + nextId

\* as Enrich, but a session id the source has set is kept
EnrichKeepsSessionId(src, id) ==
  [id |-> id, src |-> src.name,
   sessionId |-> IF Falsy(src.sessionId) THEN SessionId ELSE src.sessionId,
   timestamp |-> IF FalsyNum(src.timestamp) THEN DateNow ELSE src.timestamp,
   pageUrl |-> IF Falsy(src.pageUrl) THEN PageHref ELSE src.pageUrl,
   project |-> config.project,
   appVersion |-> config.appVersion]

\* as Enrich, but a project the source has set is kept
EnrichKeepsProject(src, id) ==
  [id |-> id, src |-> src.name,
   sessionId |-> SessionId,
   timestamp |-> IF FalsyNum(src.timestamp) THEN DateNow ELSE src.timestamp,
   pageUrl |-> IF Falsy(src.pageUrl) THEN PageHref ELSE src.pageUrl,
   project |-> IF Falsy(src.project) THEN config.project ELSE src.project,
   appVersion |-> config.appVersion]

Enrich(src, id) ==
  [id |-> id, src |-> src.name,
   sessionId |-> SessionId,
   timestamp |-> IF FalsyNum(src.timestamp) THEN DateNow ELSE src.timestamp,
   pageUrl |-> IF Falsy(src.pageUrl) THEN PageHref ELSE src.pageUrl,
   project |-> config.project,
   appVersion |-> config.appVersion]

\* as ShouldFlush, but only once the buffer exceeds the capacity
ShouldFlushStrict(reportNow, cache) ==
  reportNow \/ Len(cache) > MaxCacheOr50

ShouldFlush(reportNow, cache) ==
  reportNow \/ Len(cache) >= MaxCacheOr50

Suffix(s, n) == SubSeq(s, Len(s) - Min(Len(s), n) + 1, Len(s))

\* as Requeue, but the overflow is cut from the oldest new metrics
RequeueKeepsNewest(failed, cache) ==
  LET kept == Prefix(failed, MaxCacheOr50)
  IN kept \o Suffix(cache, MaxCacheOr50 - Len(kept))

\* as Requeue, but the failed batch is put behind the buffered metrics
RequeueBehind(failed, cache) == Prefix(cache \o failed, MaxCacheOr50)

\* [...metricsToSend, ...this.metricCache].slice(0, this.config.maxCache || 50)
Requeue(failed, cache) == Prefix(failed \o cache, MaxCacheOr50)

\* as FlushResult, but the buffer is not swapped for an empty one
FlushResultKeepsBuffer(cache) ==
  IF Len(cache) = 0 \/ ~reporterSet
    THEN [cache |-> cache, calls |-> <<>>]
    ELSE [cache |-> cache, calls |-> <<ReporterSend(cache, TRUE, AnyEnv)>>]

\* as FlushResult, but the batch is handed over without the immediate flag
FlushResultNotImmediate(cache) ==
  IF Len(cache) = 0 \/ ~reporterSet
    THEN [cache |-> cache, calls |-> <<>>]
    ELSE LET call == ReporterSend(cache, FALSE, AnyEnv)
         IN [cache |-> IF call.outcome = "rejected"
                         THEN Requeue(cache, <<>>) ELSE <<>>,
             calls |-> <<call>>]

\* as FlushResult, but a batch the Reporter refused for want of a reportUrl
\* is put back into the buffer
FlushResultRequeuesRefused(cache) ==
  IF Len(cache) = 0 \/ ~reporterSet
    THEN [cache |-> cache, calls |-> <<>>]
    ELSE LET call == ReporterSend(cache, TRUE, AnyEnv)
         IN [cache |-> IF call.outcome \in {"rejected", "nourl"}
                         THEN Requeue(cache, <<>>) ELSE <<>>,
             calls |-> <<call>>]

\* Tracker.flush applied to buffer `cache`: the buffer it leaves and the
\* Reporter.send calls it makes.
FlushResult(cache) ==
  IF Len(cache) = 0 \/ ~reporterSet
    THEN [cache |-> cache, calls |-> <<>>]
    ELSE LET call == ReporterSend(cache, TRUE, AnyEnv)
         IN [cache |-> IF call.outcome = "rejected"
                         THEN Requeue(cache, <<>>) ELSE <<>>,
             calls |-> <<call>>]

(* ====================== bookkeeping of a handler ====================== *)
\* Partial<MoniterConfig> objects: a key that is not given is Absent
Absent == "absent"
AbsentNum == 0 - 2
NoPartial ==
  [appVersion |-> Absent, sampleRate |-> AbsentNum, maxCache |-> AbsentNum,
   reportUrl |-> Absent, headers |-> Absent]

\* op: the handler; draw: Math.random() of a Tracker.send; immediate: the
\* reportNow / immediately argument; calls: the Reporter.send calls made;
\* threw: the handler threw into the host; log: what the handler itself
\* wrote to the console ("none" when nothing); partial: the argument of a
\* Tracker.setConfig
NoLast(op) ==
  [op |-> op, draw |-> 0, immediate |-> FALSE, calls |-> <<>>,
   threw |-> FALSE, log |-> "none", partial |-> NoPartial]

RECURSIVE Handed(_, _, _)
Handed(h, id, calls) ==
  IF calls = <<>> THEN h
  ELSE Handed(IF id \in Ids(Head(calls).batch)
                THEN [last |-> Head(calls).outcome, prev |-> h.last]
                ELSE h,
              id, Tail(calls))

\* The Reporter-side effect of the Reporter.send calls a handler made.
Deliver(calls, byTracker) ==
  LET started == SelectSeq(calls, LAMBDA c : c.outcome = "pending")
  IN /\ pending' = pending \o
          [i \in 1..Len(started) |->
             [batch |-> started[i].batch, byTracker |-> byTracker]]
     /\ isSending' = (isSending \/ Len(started) > 0)
     /\ hist' = IF byTracker
                  THEN [id \in DOMAIN hist |-> Handed(hist[id], id, calls)]
                  ELSE hist

(* ===================== network plugin: values ======================== *)
\* NetworkPluginOptions objects.  A boolean option is "true" or "false", a
\* number is in its own unit (sample in tenths), and a key the object does
\* not have is Absent (AbsentNum for a number).  resourceReg is "default"
\* for /^https?:\/\//i and "reg" for a regular expression of the host;
\* filterUrls is "none" for [] and "blockList" for a non-empty array;
\* parseResponse and beforeSend are named by what the function does.
\* (includeRequest and includeResponse only select the payloads copied onto
\* a record; payloads are not modelled.)
NumKeys == {"maxContentLength", "sample", "durationThreshold"}

NoOptions ==
  [ignoreMoniterRequest |-> Absent, filterUrls |-> Absent,
   maxContentLength |-> AbsentNum, enableFetch |-> Absent,
   enableXhr |-> Absent, sample |-> AbsentNum,
   enableDurationCheck |-> Absent, durationThreshold |-> AbsentNum,
   enableLogTrace |-> Absent, ignoreMTSIForbidRequest |-> Absent,
   autoBusinessCode |-> Absent, resourceReg |-> Absent,
   parseResponse |-> Absent, beforeSend |-> Absent]

\* DEFAULT_OPTIONS.maxContentLength
DefaultMaxContentLength == 10000
\* DEFAULT_OPTIONS.durationThreshold, also the fallback of
\* `durationThreshold || 2000`
DefaultDurationThreshold == 2000

DEFAULT_OPTIONS ==
  [ignoreMoniterRequest |-> "true", filterUrls |-> "none",
   maxContentLength |-> DefaultMaxContentLength, enableFetch |-> "true",
   enableXhr |-> "true", sample |-> 10,
   enableDurationCheck |-> "false",
   durationThreshold |-> DefaultDurationThreshold,
   enableLogTrace |-> "false", ignoreMTSIForbidRequest |-> "true",
   autoBusinessCode |-> "false", resourceReg |-> "default",
   parseResponse |-> "default", beforeSend |-> Absent]

\* whether the object has the key
Given(o, k) == IF k \in NumKeys THEN o[k] # AbsentNum ELSE o[k] # Absent

\* o.k: undefined when the object does not have the key
Opt(o, k) ==
  IF Given(o, k) THEN o[k] ELSE IF k \in NumKeys THEN UndefNum ELSE Undef

\* { ...base, ...over }
Spread(base, over) ==
  [k \in DOMAIN base |-> IF Given(over, k) THEN over[k] ELSE base[k]]

\* what the environment does to an exchange that is in flight.  kind:
\* "response" / "reject" for fetch, "load" / "error" / "abort" / "timeout"
\* for XHR; thrown: the rejection value of fetch, an Error ("error") or a
\* falsy value ("null"); forbid: the response carries x-forbid-reason;
\* contentType: "json" or "" (none); responseType: XMLHttpRequest.responseType
NoOutcome ==
  [kind |-> "none", thrown |-> "none", status |-> 0, forbid |-> FALSE,
   duration |-> 0, contentType |-> "", responseType |-> ""]

\* phase: "idle", "passed" (filtered: handed to the original function
\* unmonitored), "sent" (monitored and in flight), "failed" (the error,
\* abort or timeout listener of the XHR has run, loadend is still to come),
\* "done".  filter: the filter that matched, "none" if none did.  traceId:
\* the hook's httpTraceId.  outgoing: the M-TRACEID header on the request
\* the original function was called with.  host: what the page's own code
\* got back.
NoExchange ==
  [phase |-> "idle", source |-> "none", url |-> "none", draw |-> 0,
   filter |-> "none", traceId |-> Undef, outgoing |-> Undef,
   outcome |-> NoOutcome, host |-> "none"]

\* before Tracker.use is given the NetworkPlugin
NoNetPlugin ==
  [registered |-> FALSE, options |-> NoOptions, supplied |-> NoOptions,
   fetch |-> FALSE, xhr |-> FALSE]

\* before Tracker.use is given the PerformancePlugin.  listeners: the
\* listeners of the plugin the page has, each on its target ("window" or
\* "document"); eventHandlers: this.eventHandlers; timeout: "null", "armed",
\* "fired" or "cleared"
NoPerfOptions == [autoCollect |-> Absent, reportTime |-> Absent]
NoPerfPlugin ==
  [registered |-> FALSE, options |-> NoPerfOptions, listeners |-> {},
   eventHandlers |-> {}, timeout |-> "null", destroyed |-> FALSE]

NetIdle ==
  /\ netPlugin = NoNetPlugin
  /\ exchange = NoExchange
  /\ reports = <<>>
  /\ perfPlugin = NoPerfPlugin

(* ============================== Init ================================== *)
\* createTracker({ project }) and createReporter({ project, reportUrl }),
\* not yet wired together.
Init ==
  /\ config = [project |-> Project, appVersion |-> Undef,
               sampleRate |-> DefaultSampleRate, maxCache |-> DefaultMaxCache,
               reportUrl |-> Undef, headers |-> Undef]
  /\ metricCache = <<>>
  /\ reporterSet = FALSE
  /\ rConfig = [reportUrl |-> "u1", reportImmediately |-> FALSE,
                headers |-> Undef]
  /\ isSending = FALSE
  /\ destroyed = FALSE
  /\ pending = <<>>
  /\ nextId = 1
  /\ cfgCalls = 0
  /\ hist = [id \in 1..MaxMetrics |-> [last |-> "none", prev |-> "none"]]
  /\ dropped = {}
  /\ last = NoLast("init")
  /\ host = "tracker"
  /\ made = [tracker |-> TRUE, reporter |-> TRUE]
  /\ initialized = FALSE
  /\ plugins = <<>>
  /\ instances = <<>>
  /\ trackerDestroyed = FALSE
  /\ NetIdle


(* ============================= actions ================================ *)
\* the metric arrays a host passes to one Tracker.send call (a single
\* metric is wrapped into an array of one)
RECURSIVE SeqsOver(_, _)
SeqsOver(S, n) ==
  IF n = 0 THEN {<<>>}
  ELSE LET shorter == SeqsOver(S, n - 1)
       IN shorter \cup
          { Append(s, m) : s \in { t \in shorter : Len(t) = n - 1 }, m \in S }
\* delivery does not read a metric's fields: here the host leaves them unset
BareMetrics == { m \in SourceMetrics : m.name = "bare" }
SendArgs == { s \in SeqsOver(BareMetrics, MaxBatch) : Len(s) >= 1 }

\* Tracker.send(metric, reportNow) with Math.random() returning `draw`, for
\* any caller: the host page or a plugin
SendMetrics(srcs, reportNow, draw) ==
  /\ nextId + Len(srcs) - 1 <= MaxMetrics
  /\ IF ~ShouldSample(draw)
       THEN /\ last' = [NoLast("send") EXCEPT !.draw = draw,
                          !.immediate = reportNow]
            /\ UNCHANGED << lifeVars, cfgCalls, config, metricCache, reporterSet, rConfig, isSending,
                            destroyed, pending, nextId, hist, dropped >>
       ELSE LET enriched == [i \in 1..Len(srcs) |-> Enrich(srcs[i], nextId + i - 1)]
                cache == metricCache \o enriched
                r == IF ShouldFlush(reportNow, cache) THEN FlushResult(cache)
                     ELSE [cache |-> cache, calls |-> <<>>]
            IN /\ metricCache' = r.cache
               /\ nextId' = nextId + Len(srcs)
               /\ Deliver(r.calls, TRUE)
               /\ last' = [NoLast("send") EXCEPT !.draw = draw,
                             !.immediate = reportNow, !.calls = r.calls]
               /\ UNCHANGED << lifeVars, cfgCalls, config, reporterSet, rConfig, destroyed, dropped >>

\* the host calls Tracker.send
TrackerSend(srcs, reportNow, draw) ==
  /\ SendMetrics(srcs, reportNow, draw)
  /\ UNCHANGED netVars

\* Tracker.flush()
TrackerFlush ==
  LET r == FlushResult(metricCache)
  IN /\ metricCache' = r.cache
     /\ Deliver(r.calls, TRUE)
     /\ last' = [NoLast("flush") EXCEPT !.calls = r.calls]
     /\ UNCHANGED << netVars, lifeVars, cfgCalls, config, reporterSet, rConfig, destroyed, nextId, dropped >>

\* Tracker.setReporter(reporter)
TrackerSetReporter ==
  /\ reporterSet' = TRUE
  /\ rConfig' = IF ~Falsy(config.reportUrl)
                  THEN [rConfig EXCEPT !.reportUrl = config.reportUrl]
                  ELSE rConfig
  /\ last' = NoLast("setReporter")
  /\ UNCHANGED << netVars, lifeVars, cfgCalls, config, metricCache, isSending, destroyed, pending, nextId,
                  hist, dropped >>

\* the partial updates a host passes to Tracker.setConfig: one key at most
Partials ==
  {NoPartial}
  \cup { [NoPartial EXCEPT !.maxCache = n] : n \in 0..MaxCacheCfg }
  \cup { [NoPartial EXCEPT !.sampleRate = r] : r \in Rates }
  \cup { [NoPartial EXCEPT !.reportUrl = u] : u \in Urls \cup {""} }
  \cup { [NoPartial EXCEPT !.appVersion = ConfigVersion] }

\* { ...this.config, ...config }
MergeConfig(c, p) ==
  [project |-> c.project,
   appVersion |-> IF p.appVersion = Absent THEN c.appVersion ELSE p.appVersion,
   sampleRate |-> IF p.sampleRate = AbsentNum THEN c.sampleRate ELSE p.sampleRate,
   maxCache |-> IF p.maxCache = AbsentNum THEN c.maxCache ELSE p.maxCache,
   reportUrl |-> IF p.reportUrl = Absent THEN c.reportUrl ELSE p.reportUrl,
   headers |-> IF p.headers = Absent THEN c.headers ELSE p.headers]

\* Tracker.setConfig(partial)
TrackerSetConfig(p) ==
  /\ cfgCalls < MaxConfigCalls
  /\ cfgCalls' = cfgCalls + 1
  /\ config' = MergeConfig(config, p)
  /\ rConfig' = IF reporterSet /\ p.reportUrl # Absent /\ ~Falsy(p.reportUrl)
                  THEN [rConfig EXCEPT !.reportUrl = p.reportUrl]
                  ELSE rConfig
  /\ last' = [NoLast("setConfig") EXCEPT !.partial = p]
  /\ UNCHANGED << netVars, lifeVars, metricCache, reporterSet, isSending, destroyed, pending,
                  nextId, hist, dropped >>

\* What a host passes to Tracker.use: a plugin constructor, here by the name
\* its instances report and by whether their setUp / destroy throws.  The
\* first and the third report the same name.
PluginCtors ==
  { [name |-> "p", setUpThrows |-> FALSE, destroyThrows |-> TRUE],
    [name |-> "q", setUpThrows |-> FALSE, destroyThrows |-> FALSE],
    [name |-> "p", setUpThrows |-> FALSE, destroyThrows |-> FALSE],
    [name |-> "r", setUpThrows |-> TRUE, destroyThrows |-> FALSE] }

\* this.plugins.set(name, plugin): a Map keeps the position of an existing
\* key and replaces its value
MapSet(plugs, name, inst) ==
  IF \E i \in DOMAIN plugs : plugs[i].name = name
    THEN [i \in DOMAIN plugs |->
            IF plugs[i].name = name THEN [name |-> name, inst |-> inst]
            ELSE plugs[i]]
    ELSE Append(plugs, [name |-> name, inst |-> inst])

\* The loop of Tracker.use over the constructors: each one is instantiated
\* and set up, and registered unless setUp threw (caught and logged).
RECURSIVE UseResult(_, _, _)
UseResult(plugs, insts, ctors) ==
  IF ctors = <<>> THEN [plugins |-> plugs, instances |-> insts]
  ELSE LET c == Head(ctors)
           made1 == Append(insts, [name |-> c.name, setUp |-> ~c.setUpThrows,
                                   destroyThrows |-> c.destroyThrows,
                                   destroyCalls |-> 0])
       IN UseResult(IF c.setUpThrows THEN plugs
                    ELSE MapSet(plugs, c.name, Len(made1)),
                    made1, Tail(ctors))

\* Tracker.use(pluginCtors)
TrackerUse(ctors) ==
  /\ Len(instances) + Len(ctors) <= MaxPlugins
  /\ LET r == UseResult(plugins, instances, ctors)
     IN /\ plugins' = r.plugins
        /\ instances' = r.instances
  /\ last' = [NoLast("use") EXCEPT
                !.log = IF \E i \in DOMAIN ctors : ctors[i].setUpThrows
                          THEN "error" ELSE "none"]
  /\ UNCHANGED << netVars, config, metricCache, reporterSet, rConfig, isSending,
                  destroyed, pending, cfgCalls, nextId, hist, dropped,
                  host, made, initialized, trackerDestroyed >>

\* Tracker.addError(err, opts): console.error, nothing else
TrackerAddError ==
  /\ last' = [NoLast("addError") EXCEPT !.log = "error"]
  /\ UNCHANGED << netVars, config, metricCache, reporterSet, rConfig, isSending,
                  destroyed, pending, cfgCalls, nextId, hist, dropped,
                  lifeVars >>

\* as DestroyPlugins, but the loop ends at the first destroy that throws
RECURSIVE DestroyPluginsUntilThrow(_, _)
DestroyPluginsUntilThrow(plugs, insts) ==
  IF plugs = <<>> THEN insts
  ELSE LET i == Head(plugs).inst
           called == [insts EXCEPT ![i].destroyCalls = @ + 1]
       IN IF insts[i].destroyThrows THEN called
          ELSE DestroyPluginsUntilThrow(Tail(plugs), called)

\* The loop of Tracker.destroy over the registry: destroy is invoked on each
\* registered instance, a throw being caught and logged.
RECURSIVE DestroyPlugins(_, _)
DestroyPlugins(plugs, insts) ==
  IF plugs = <<>> THEN insts
  ELSE LET i == Head(plugs).inst
           called == [insts EXCEPT ![i].destroyCalls = @ + 1]
       IN DestroyPlugins(Tail(plugs), called)

\* as DestroyTracker, but the registry is not cleared
DestroyTrackerKeepsRegistry ==
  LET r == FlushResult(metricCache)
  IN /\ instances' = DestroyPlugins(plugins, instances)
     /\ plugins' = plugins
     /\ metricCache' = r.cache
     /\ Deliver(r.calls, TRUE)
     /\ destroyed' = (destroyed \/ reporterSet)
     /\ trackerDestroyed' = TRUE
     /\ last' = [NoLast("destroy") EXCEPT !.calls = r.calls]
     /\ UNCHANGED << netVars, cfgCalls, config, reporterSet, rConfig, nextId, dropped,
                     host, made >>

\* The body of Tracker.destroy(): the plugins, the registry, the final
\* flush (which meets the Reporter as it is before the call), then
\* Reporter.destroy().
DestroyTracker ==
  LET r == FlushResult(metricCache)
  IN /\ instances' = DestroyPlugins(plugins, instances)
     /\ plugins' = <<>>
     /\ metricCache' = r.cache
     /\ Deliver(r.calls, TRUE)
     /\ destroyed' = (destroyed \/ reporterSet)
     /\ trackerDestroyed' = TRUE
     /\ last' = [NoLast("destroy") EXCEPT
                   !.calls = r.calls,
                   !.log = IF \E j \in DOMAIN plugins :
                                instances[plugins[j].inst].destroyThrows
                             THEN "error" ELSE "none"]
     /\ UNCHANGED << netVars, cfgCalls, config, reporterSet, rConfig, nextId, dropped,
                     host, made >>

\* Tracker.destroy()
TrackerDestroy ==
  /\ DestroyTracker
  /\ UNCHANGED initialized

\* Reporter.send(data, immediately) called by the host itself
ReporterSendDirect(data, immediately, env) ==
  LET call == ReporterSend(data, immediately, env)
  IN /\ Deliver(<<call>>, FALSE)
     /\ last' = [NoLast("reporterSend") EXCEPT !.immediate = immediately,
                   !.calls = <<call>>]
     /\ UNCHANGED << netVars, lifeVars, cfgCalls, config, metricCache, reporterSet, rConfig, destroyed,
                     nextId, dropped >>

\* Reporter.setConfig(partial) called by the host itself
ReporterSetConfig(url, setImm, imm) ==
  /\ cfgCalls < MaxConfigCalls
  /\ cfgCalls' = cfgCalls + 1
  /\ rConfig' = [rConfig EXCEPT
                   !.reportUrl = IF url = Absent THEN @ ELSE url,
                   !.reportImmediately = IF setImm THEN imm ELSE @]
  /\ last' = NoLast("reporterSetConfig")
  /\ UNCHANGED << netVars, lifeVars, config, metricCache, reporterSet, isSending, destroyed,
                  pending, nextId, hist, dropped >>

\* Reporter.destroy() called by the host itself
ReporterDestroy ==
  /\ destroyed' = TRUE
  /\ last' = NoLast("reporterDestroy")
  /\ UNCHANGED << netVars, lifeVars, cfgCalls, config, metricCache, reporterSet, rConfig, isSending,
                  pending, nextId, hist, dropped >>

Remove(s, i) == SubSeq(s, 1, i - 1) \o SubSeq(s, i + 1, Len(s))

\* the outcome of the call whose fetch settles replaces its "pending"
Settled(h, o) ==
  IF h.last = "pending" THEN [h EXCEPT !.last = o]
  ELSE IF h.prev = "pending" THEN [h EXCEPT !.prev = o]
  ELSE h

\* as FetchSettle, but a requeue that leaves the buffer at capacity flushes
\* it again
FetchSettleReflushes(i, result) ==
  /\ i \in DOMAIN pending
  /\ LET p == pending[i]
         failed == result # "ok"
         requeued == failed /\ p.byTracker
         cache == IF requeued THEN Requeue(p.batch, metricCache) ELSE metricCache
         again == requeued /\ Len(cache) >= MaxCacheOr50
         call == [batch |-> cache, immediately |-> TRUE, env |-> AnyEnv,
                  transports |-> <<"fetch">>, outcome |-> "pending"]
         settled == [id \in DOMAIN hist |->
                       IF p.byTracker /\ id \in Ids(p.batch)
                         THEN Settled(hist[id],
                                IF failed THEN "rejected" ELSE "ok")
                         ELSE hist[id]]
     IN /\ pending' = IF again
                        THEN Append(Remove(pending, i),
                                    [batch |-> cache, byTracker |-> TRUE])
                        ELSE Remove(pending, i)
        /\ isSending' = again
        /\ metricCache' = IF again THEN <<>> ELSE cache
        /\ dropped' = IF requeued
                        THEN dropped \cup
                             ((Ids(p.batch) \cup Ids(metricCache)) \ Ids(cache))
                        ELSE dropped
        /\ hist' = IF again
                     THEN [id \in DOMAIN hist |-> Handed(settled[id], id, <<call>>)]
                     ELSE settled
        /\ last' = [NoLast(IF failed THEN "fetchFailed" ELSE "fetchOk")
                      EXCEPT !.calls = IF again THEN <<call>> ELSE <<>>]
  /\ UNCHANGED << netVars, lifeVars, cfgCalls, config, reporterSet, rConfig, destroyed, nextId >>

\* as FetchSettle, but isSending is cleared on the success path only
FetchSettleKeepsFlag(i, result) ==
  /\ i \in DOMAIN pending
  /\ LET p == pending[i]
         failed == result # "ok"
         requeued == failed /\ p.byTracker
         cache == IF requeued THEN Requeue(p.batch, metricCache) ELSE metricCache
     IN /\ pending' = Remove(pending, i)
        /\ isSending' = (failed /\ isSending)
        /\ metricCache' = cache
        /\ dropped' = IF requeued
                        THEN dropped \cup
                             ((Ids(p.batch) \cup Ids(metricCache)) \ Ids(cache))
                        ELSE dropped
        /\ hist' = IF p.byTracker
                     THEN [id \in DOMAIN hist |->
                             IF id \in Ids(p.batch)
                               THEN Settled(hist[id],
                                      IF failed THEN "rejected" ELSE "ok")
                               ELSE hist[id]]
                     ELSE hist
        /\ last' = NoLast(IF failed THEN "fetchFailed" ELSE "fetchOk")
  /\ UNCHANGED << netVars, lifeVars, cfgCalls, config, reporterSet, rConfig, destroyed, nextId >>

\* The fetch of pending[i] settles: "ok" (2xx), "notok" (response.ok false)
\* or "throw" (fetch rejects).  sendImmediate's finally clears isSending;
\* on failure the promise rejects and Tracker.flush's catch handler
\* requeues the batch.
FetchSettle(i, result) ==
  /\ i \in DOMAIN pending
  /\ LET p == pending[i]
         failed == result # "ok"
         requeued == failed /\ p.byTracker
         cache == IF requeued THEN Requeue(p.batch, metricCache) ELSE metricCache
     IN /\ pending' = Remove(pending, i)
        /\ isSending' = FALSE
        /\ metricCache' = cache
        /\ dropped' = IF requeued
                        THEN dropped \cup
                             ((Ids(p.batch) \cup Ids(metricCache)) \ Ids(cache))
                        ELSE dropped
        /\ hist' = IF p.byTracker
                     THEN [id \in DOMAIN hist |->
                             IF id \in Ids(p.batch)
                               THEN Settled(hist[id],
                                      IF failed THEN "rejected" ELSE "ok")
                               ELSE hist[id]]
                     ELSE hist
        /\ last' = NoLast(IF failed THEN "fetchFailed" ELSE "fetchOk")
  /\ UNCHANGED << netVars, lifeVars, cfgCalls, config, reporterSet, rConfig, destroyed, nextId >>

\* The Tracker with its Reporter: the host drives the Tracker, and the
\* fetches its flushes start settle at any time.
Next ==
  \/ \E srcs \in SendArgs, reportNow \in BOOLEAN, draw \in Draws :
       TrackerSend(srcs, reportNow, draw)
  \/ TrackerFlush
  \/ TrackerSetReporter
  \/ \E p \in Partials : TrackerSetConfig(p)
  \/ \E i \in DOMAIN pending, result \in {"ok", "notok", "throw"} :
       FetchSettle(i, result)

Spec == Init /\ [][Next]_vars

\* The Reporter on its own: the host calls Reporter.send directly.
NextReporter ==
  \/ \E data \in {<<>>, <<DirectMetric>>}, immediately \in BOOLEAN, env \in Env :
       ReporterSendDirect(data, immediately, env)
  \/ \E url \in Urls \cup {Absent, ""}, setImm \in BOOLEAN, imm \in BOOLEAN :
       ReporterSetConfig(url, setImm, imm)
  \/ ReporterDestroy
  \/ \E i \in DOMAIN pending, result \in {"ok", "notok", "throw"} :
       FetchSettle(i, result)

SpecReporter == Init /\ [][NextReporter]_vars


\* every fetch the Reporter has started settles
SpecReporterLive ==
  /\ SpecReporter
  /\ WF_vars(\E i \in DOMAIN pending, result \in {"ok", "notok", "throw"} :
               FetchSettle(i, result))


\* Enrichment: the host submits metrics with every kind of source fields.
\* The sample rate stays at its default 1.0, so every call is accepted and
\* the draw is immaterial; maxCache stays at its default.
EnrichArgs == { s \in SeqsOver(SourceMetrics, MaxBatch) : Len(s) >= 1 }

NextEnrich ==
  \/ \E srcs \in EnrichArgs, reportNow \in BOOLEAN :
       TrackerSend(srcs, reportNow, 0)
  \/ TrackerFlush
  \/ TrackerSetReporter
  \/ \E p \in {NoPartial, [NoPartial EXCEPT !.appVersion = ConfigVersion]} :
       TrackerSetConfig(p)
  \/ \E i \in DOMAIN pending, result \in {"ok", "notok", "throw"} :
       FetchSettle(i, result)

SpecEnrich == Init /\ [][NextEnrich]_vars

(* ============================ lifecycle =============================== *)
\* everything but `last`
state == << config, metricCache, reporterSet, rConfig, isSending, destroyed,
            pending, cfgCalls, nextId, hist, dropped, lifeVars, netVars >>

\* The MoniterConfig objects a host constructs with: project given, empty or
\* missing; reportUrl given or missing.
InitConfigs ==
  [project : {Project, "", Undef}, reportUrl : {"u1", Undef},
   headers : {Undef}]

\* new Tracker(config): { ...DEFAULT_CONFIG, ...config }
NewTrackerConfig(cfg) ==
  [project |-> cfg.project, appVersion |-> Undef,
   sampleRate |-> DefaultSampleRate, maxCache |-> DefaultMaxCache,
   reportUrl |-> cfg.reportUrl, headers |-> cfg.headers]

\* new Reporter(config): { ...DEFAULT_REPORTER_CONFIG, ...config }
NewReporterConfig(cfg) ==
  [reportUrl |-> cfg.reportUrl, reportImmediately |-> FALSE,
   headers |-> cfg.headers]

\* Tracker.init(config) / createTracker(config): the constructor
TrackerInit(cfg) ==
  /\ host = "tracker" /\ ~made.tracker
  /\ config' = NewTrackerConfig(cfg)
  /\ plugins' = <<>>
  /\ metricCache' = <<>>
  /\ reporterSet' = FALSE
  /\ trackerDestroyed' = FALSE
  /\ made' = [made EXCEPT !.tracker = TRUE]
  /\ last' = NoLast("trackerInit")
  /\ UNCHANGED << netVars, rConfig, isSending, destroyed, pending, cfgCalls, nextId,
                  hist, dropped, host, initialized, instances >>

\* createReporter(config): the constructor
CreateReporter(cfg) ==
  /\ host = "tracker" /\ ~made.reporter
  /\ rConfig' = NewReporterConfig(cfg)
  /\ isSending' = FALSE
  /\ destroyed' = FALSE
  /\ made' = [made EXCEPT !.reporter = TRUE]
  /\ last' = NoLast("createReporter")
  /\ UNCHANGED << netVars, config, metricCache, reporterSet, pending, cfgCalls, nextId,
                  hist, dropped, host, initialized, plugins, instances,
                  trackerDestroyed >>

\* the guard `if (!this.initialized)` of the facade: console.error, return
NotInitialized(op) ==
  /\ last' = [NoLast(op) EXCEPT !.log = "notInitialized"]
  /\ UNCHANGED state

\* WebMoniter.init without the `if (this.initialized)` guard
WmInitRebuilds(cfg) ==
  /\ host = "facade"
  /\ IF Falsy(cfg.project)
       THEN /\ last' = [NoLast("wmInit") EXCEPT !.threw = TRUE]
            /\ UNCHANGED state
       ELSE /\ rConfig' = NewReporterConfig(cfg)
            /\ isSending' = FALSE
            /\ destroyed' = FALSE
            /\ config' = NewTrackerConfig(cfg)
            /\ plugins' = <<>>
            /\ metricCache' = <<>>
            /\ reporterSet' = TRUE
            /\ trackerDestroyed' = FALSE
            /\ pending' = <<>>
            /\ made' = [tracker |-> TRUE, reporter |-> TRUE]
            /\ initialized' = TRUE
            /\ last' = NoLast("wmInit")
            /\ UNCHANGED << netVars, cfgCalls, nextId, hist, dropped, host, instances >>

\* WebMoniter.init(config).  A second init creates a new Reporter and a new
\* Tracker; the fetches of the discarded Reporter settle on objects the
\* facade no longer refers to and leave `pending`.
WmInit(cfg) ==
  /\ host = "facade"
  /\ IF initialized
       THEN /\ last' = [NoLast("wmInit") EXCEPT !.log = "alreadyInitialized"]
            /\ UNCHANGED state
     ELSE IF Falsy(cfg.project)
       THEN /\ last' = [NoLast("wmInit") EXCEPT !.threw = TRUE]
            /\ UNCHANGED state
     ELSE /\ rConfig' = NewReporterConfig(cfg)
          /\ isSending' = FALSE
          /\ destroyed' = FALSE
          /\ config' = NewTrackerConfig(cfg)
          /\ plugins' = <<>>
          /\ metricCache' = <<>>
          /\ reporterSet' = TRUE
          /\ trackerDestroyed' = FALSE
          /\ pending' = <<>>
          /\ made' = [tracker |-> TRUE, reporter |-> TRUE]
          /\ initialized' = TRUE
          /\ last' = NoLast("wmInit")
          /\ UNCHANGED << netVars, cfgCalls, nextId, hist, dropped, host, instances >>

\* WebMoniter.use(pluginCtors)
WmUse(ctors) ==
  /\ host = "facade"
  /\ IF ~initialized
       THEN /\ last' = [NoLast("wmUse") EXCEPT !.threw = TRUE]
            /\ UNCHANGED state
       ELSE TrackerUse(ctors)

\* WebMoniter.addError(err, opts)
WmAddError ==
  /\ host = "facade"
  /\ IF ~initialized THEN NotInitialized("wmAddError") ELSE TrackerAddError

\* WebMoniter.setConfig(partial)
WmSetConfig(p) ==
  /\ host = "facade"
  /\ IF ~initialized THEN NotInitialized("wmSetConfig") ELSE TrackerSetConfig(p)

\* as WmSend, but without the guard on the initialised flag
WmSendUnguarded(srcs, reportNow, draw) ==
  /\ host = "facade"
  /\ TrackerSend(srcs, reportNow, draw)

\* WebMoniter.send(metric, reportNow)
WmSend(srcs, reportNow, draw) ==
  /\ host = "facade"
  /\ IF ~initialized THEN NotInitialized("wmSend")
     ELSE TrackerSend(srcs, reportNow, draw)

\* WebMoniter.flush()
WmFlush ==
  /\ host = "facade"
  /\ IF ~initialized THEN NotInitialized("wmFlush") ELSE TrackerFlush

\* WebMoniter.destroy()
WmDestroy ==
  /\ host = "facade"
  /\ IF ~initialized
       THEN /\ last' = NoLast("wmDestroy")
            /\ UNCHANGED state
       ELSE /\ DestroyTracker
            /\ initialized' = FALSE

\* Before anything is constructed.  The fields of the Tracker and of the
\* Reporter hold what Init gives them; no handler reads them before the
\* constructor has run.
InitLifecycle ==
  /\ config = [project |-> Project, appVersion |-> Undef,
               sampleRate |-> DefaultSampleRate, maxCache |-> DefaultMaxCache,
               reportUrl |-> Undef, headers |-> Undef]
  /\ metricCache = <<>>
  /\ reporterSet = FALSE
  /\ rConfig = [reportUrl |-> "u1", reportImmediately |-> FALSE,
                headers |-> Undef]
  /\ isSending = FALSE
  /\ destroyed = FALSE
  /\ pending = <<>>
  /\ nextId = 1
  /\ cfgCalls = 0
  /\ hist = [id \in 1..MaxMetrics |-> [last |-> "none", prev |-> "none"]]
  /\ dropped = {}
  /\ last = NoLast("init")
  /\ host \in {"tracker", "facade"}
  /\ made = [tracker |-> FALSE, reporter |-> FALSE]
  /\ initialized = FALSE
  /\ plugins = <<>>
  /\ instances = <<>>
  /\ trackerDestroyed = FALSE
  /\ NetIdle

\* one metric per send call, its fields left unset
OneMetric == { s \in SeqsOver(BareMetrics, 1) : Len(s) = 1 }

\* Teardown: a host that drives either a Tracker it constructed itself or
\* the WebMoniter facade, with plugins whose setUp succeeds and whose names
\* differ.  Configurations are valid and are not updated.
ValidConfigs ==
  { cfg \in InitConfigs : cfg.project = Project /\ cfg.reportUrl = "u1" }
TeardownCtors ==
  { c \in PluginCtors : ~c.setUpThrows /\ (c.name = "p" => c.destroyThrows) }
UseArgs == SeqsOver(TeardownCtors, MaxUse)

NextLifecycle ==
  \/ \E cfg \in ValidConfigs : TrackerInit(cfg)
  \/ \E cfg \in ValidConfigs : CreateReporter(cfg)
  \/ /\ host = "tracker" /\ made.tracker
     /\ \/ made.reporter /\ TrackerSetReporter
        \/ \E ctors \in UseArgs : TrackerUse(ctors)
        \/ \E srcs \in OneMetric, reportNow \in BOOLEAN :
             nextId <= MaxLifeMetrics /\ TrackerSend(srcs, reportNow, 0)
        \/ TrackerFlush
        \/ TrackerAddError
        \/ TrackerDestroy
  \/ \E cfg \in ValidConfigs : WmInit(cfg)
  \/ \E ctors \in UseArgs : WmUse(ctors)
  \/ \E srcs \in OneMetric, reportNow \in BOOLEAN :
       nextId <= MaxLifeMetrics /\ WmSend(srcs, reportNow, 0)
  \/ WmFlush
  \/ WmAddError
  \/ WmDestroy
  \/ \E i \in DOMAIN pending, result \in {"ok", "notok", "throw"} :
       FetchSettle(i, result)

SpecLifecycle == InitLifecycle /\ [][NextLifecycle]_vars

\* Usage: the same host, with every construction configuration and with
\* configuration updates; use is called with an empty constructor array.
ReporterConfigs == { cfg \in InitConfigs : cfg.project = Project }
UsagePartials ==
  { NoPartial,
    [NoPartial EXCEPT !.reportUrl = "u2"],
    [NoPartial EXCEPT !.reportUrl = ""],
    [NoPartial EXCEPT !.headers = "h2"] }
UsageUseArgs == SeqsOver(PluginCtors, 0)

NextUsage ==
  \/ \E cfg \in InitConfigs : TrackerInit(cfg)
  \/ \E cfg \in ReporterConfigs : CreateReporter(cfg)
  \/ /\ host = "tracker" /\ made.tracker
     /\ \/ made.reporter /\ TrackerSetReporter
        \/ \E ctors \in UsageUseArgs : TrackerUse(ctors)
        \/ \E srcs \in OneMetric, reportNow \in BOOLEAN :
             nextId <= MaxLifeMetrics /\ TrackerSend(srcs, reportNow, 0)
        \/ TrackerFlush
        \/ \E p \in UsagePartials : TrackerSetConfig(p)
        \/ TrackerAddError
        \/ TrackerDestroy
  \/ \E cfg \in InitConfigs : WmInit(cfg)
  \/ \E ctors \in UsageUseArgs : WmUse(ctors)
  \/ \E srcs \in OneMetric, reportNow \in BOOLEAN :
       nextId <= MaxLifeMetrics /\ WmSend(srcs, reportNow, 0)
  \/ WmFlush
  \/ \E p \in UsagePartials : WmSetConfig(p)
  \/ WmAddError
  \/ WmDestroy
  \/ \E i \in DOMAIN pending, result \in {"ok", "notok", "throw"} :
       FetchSettle(i, result)

SpecUsage == InitLifecycle /\ [][NextUsage]_vars

(* ======================= network plugin: hooks ======================== *)
\* a boolean option read in a condition
Truthy(b) == b = "true"

\* The URLs the page requests, as getFullUrl returns them: "u1" is the
\* endpoint the Reporter delivers to, "same" a same-origin URL, "cross" a
\* URL of another origin, "blocked" a URL that a regular expression of
\* filterUrls matches, "asset" a URL that the host's resourceReg does not
\* match.  Only "same" has the origin of the page.
NetUrls == {"u1", "same", "cross", "blocked", "asset"}
\* url.includes(reportUrl)
Includes(url, reportUrl) == url = reportUrl
\* resourceReg.test(url): every URL getFullUrl returns starts with http(s)
RegTest(reg, url) == reg = "default" \/ url # "asset"
\* the loop over filterUrls: some regex.test(url)
BlockListTest(list, url) == list = "blockList" /\ url = "blocked"
\* checkSameOrigin(url, window.location.origin)
CheckSameOrigin(url) == url = "same"

\* a project name with a character outside Latin-1: Headers.append and
\* XMLHttpRequest.setRequestHeader throw a TypeError on such a value
NonLatinProject == "proj-non-latin1"
\* generateTraceId()
TraceId == "trace-1"

\* shouldFilterRequest(url) of both handlers, with Math.random() returning
\* `draw` (tenths): the filter whose `return true` is reached, "none" for
\* `return false`
FilterMatched(o, url, draw) ==
  IF /\ Opt(o, "ignoreMoniterRequest") # "false"
     /\ ~Falsy(config.reportUrl)
     /\ Includes(url, config.reportUrl)
    THEN "selfReport"
  ELSE IF /\ Opt(o, "resourceReg") # Undef
          /\ ~RegTest(Opt(o, "resourceReg"), url)
    THEN "allowList"
  ELSE IF /\ Opt(o, "filterUrls") # Undef
          /\ BlockListTest(Opt(o, "filterUrls"), url)
    THEN "blockList"
  ELSE IF /\ Opt(o, "sample") # UndefNum
          /\ Opt(o, "sample") < 10
          /\ draw > Opt(o, "sample")
    THEN "sample"
  ELSE "none"

ShouldFilterRequest(o, url, draw) == FilterMatched(o, url, draw) # "none"

\* The try block that generates the trace id and puts it on the request.
\* httpTraceId is assigned first; the M-APPKEY header throws for a project
\* name outside Latin-1, and the catch only logs.  fetch builds a Headers
\* object of its own and assigns it to init.headers last, so a throw leaves
\* the request without M-TRACEID; XHR has set M-TRACEID on the request
\* before M-APPKEY throws.
TraceAttach(source, o, url) ==
  IF Truthy(Opt(o, "enableLogTrace")) /\ CheckSameOrigin(url)
    THEN [traceId |-> TraceId,
          outgoing |-> IF source = "fetch" /\ config.project = NonLatinProject
                         THEN Undef ELSE TraceId]
    ELSE [traceId |-> Undef, outgoing |-> Undef]

\* error messages: text names the message, threshold is the number a
\* duration message prints (UndefNum prints as "undefined")
NoMessage == [text |-> "", threshold |-> UndefNum]
Msg(t) == [text |-> t, threshold |-> UndefNum]
\* errorMessage || undefined
OrUndefined(m) == IF m.text = "" THEN Msg(Undef) ELSE m

\* this.options.durationThreshold || 2000
ThresholdOr2000(o) ==
  IF FalsyNum(Opt(o, "durationThreshold")) THEN DefaultDurationThreshold
  ELSE Opt(o, "durationThreshold")

\* the duration check of the fetch finally block and of onLoadEnd: '' or
\* `请求耗时超过${this.options.durationThreshold}ms`
TimeoutMessage(o, duration) ==
  IF Truthy(Opt(o, "enableDurationCheck")) /\ duration > ThresholdOr2000(o)
    THEN [text |-> "overThreshold", threshold |-> Opt(o, "durationThreshold")]
    ELSE NoMessage

\* `result.code` of this.options.parseResponse(parsedData) inside its try:
\* a parser that throws, or returns nothing, leaves businessCode undefined
ParseBusinessCode(o) ==
  CASE Opt(o, "parseResponse") = "default" -> "default-code"
    [] Opt(o, "parseResponse") = "returnsCode" -> "code"
    [] OTHER -> Undef

\* as BusinessCode, but the response text is parsed whether or not it can
\* be read
BusinessCodeOfAnyResponse(o, json, readable) ==
  IF /\ Truthy(Opt(o, "autoBusinessCode"))
     /\ Opt(o, "parseResponse") # Undef
     /\ json
    THEN ParseBusinessCode(o) ELSE Undef

\* The business code of a response.  json: the content type includes
\* application/json; readable: the text of the response can be read
\* (always for fetch, responseType '' or 'text' for XHR).
BusinessCode(o, json, readable) ==
  IF /\ Truthy(Opt(o, "autoBusinessCode"))
     /\ Opt(o, "parseResponse") # Undef
     /\ json /\ readable
    THEN ParseBusinessCode(o) ELSE Undef

\* The record the finally block of fetchProxy passes to the callback.  The
\* forbidden-response check returns from inside the try, so the finally
\* block runs for it as well, before the response has been parsed.
FetchRecord(o, x, out) ==
  LET hasResponse == out.kind = "response"
      forbidden == /\ hasResponse
                   /\ Truthy(Opt(o, "ignoreMTSIForbidRequest"))
                   /\ out.forbid /\ out.status = 403
      businessCode == IF hasResponse /\ ~forbidden
                        THEN BusinessCode(o, out.contentType = "json", TRUE)
                        ELSE Undef
      timeoutMessage == TimeoutMessage(o, out.duration)
      statusCode == IF hasResponse THEN out.status ELSE 0
      isSuccess == hasResponse /\ statusCode >= 200 /\ statusCode < 400
      errorMessage ==
        IF timeoutMessage.text # "" THEN timeoutMessage
        ELSE IF isSuccess THEN NoMessage
        ELSE IF ~hasResponse /\ out.thrown = "error" THEN Msg("exception")
        ELSE IF hasResponse THEN Msg("status")
        ELSE NoMessage
  IN [url |-> x.url, status |-> statusCode, businessCode |-> businessCode,
      duration |-> out.duration,
      success |-> isSuccess /\ timeoutMessage.text = "",
      errorMessage |-> OrUndefined(errorMessage),
      httpTraceId |-> x.traceId, type |-> "fetch", listener |-> "finally"]

\* isMTSIForbidRequest('xhr', xhr, shouldIgnore = true)
IsMTSIForbidRequest(shouldIgnore, out) ==
  IF shouldIgnore = "false" THEN FALSE
  ELSE out.status = 403 /\ out.forbid

\* the record onLoadEnd passes to the callback, when it passes one
XhrLoadEndRecord(o, x, out) ==
  LET timeoutMessage == TimeoutMessage(o, out.duration)
      businessCode == BusinessCode(o, out.contentType = "json",
                                   out.responseType \in {"", "text"})
      isSuccess == out.status >= 200 /\ out.status < 400
      errorMessage ==
        IF timeoutMessage.text # "" THEN timeoutMessage
        ELSE IF isSuccess THEN NoMessage
        ELSE Msg("status")
  IN [url |-> x.url, status |-> out.status, businessCode |-> businessCode,
      duration |-> out.duration,
      success |-> isSuccess /\ timeoutMessage.text = "",
      errorMessage |-> OrUndefined(errorMessage),
      httpTraceId |-> x.traceId, type |-> "xhr", listener |-> "loadend"]

\* the record of the error, abort and timeout listeners: xhr.statusText is
\* empty after a failure, so the error listener reports '网络错误'
XhrFailureRecord(x, kind, duration) ==
  [url |-> x.url, status |-> 0, businessCode |-> Undef,
   duration |-> duration, success |-> FALSE,
   errorMessage |-> Msg(CASE kind = "error" -> "networkError"
                          [] kind = "abort" -> "aborted"
                          [] OTHER -> "transportTimeout"),
   httpTraceId |-> x.traceId, type |-> "xhr", listener |-> kind]

(* ===================== network plugin: reporter ======================= *)
\* what the beforeSend hook of the host does with the metric
HookKinds ==
  {"returnsObject", "returnsUndefined", "returnsNull", "returnsOther",
   "throws"}

\* as ReportNetworkRequest, but a beforeSend that throws ends the call
ReportNetworkRequestHookAborts(o, params) ==
  LET over == /\ Truthy(Opt(o, "enableDurationCheck"))
              /\ params.duration > ThresholdOr2000(o)
      apiMetric ==
        [from |-> "original", url |-> params.url, status |-> params.status,
         duration |-> params.duration, success |-> params.success,
         errorMessage |-> IF over /\ params.errorMessage.text = Undef
                            THEN Msg("overThresholdUrl")
                            ELSE params.errorMessage,
         requestType |-> params.type, businessCode |-> params.businessCode,
         httpTraceId |-> params.httpTraceId, timeout |-> over,
         timeoutThreshold |-> IF over THEN Opt(o, "durationThreshold")
                              ELSE UndefNum]
      hook == Opt(o, "beforeSend")
  IN [params |-> params,
      sent |-> IF hook = "throws" THEN <<>>
               ELSE IF hook = "returnsObject"
                 THEN << [apiMetric EXCEPT !.from = "hook"] >>
               ELSE << apiMetric >>,
      addErrors |-> 0,
      log |-> IF hook = "throws" THEN "error" ELSE "none",
      threw |-> FALSE]

\* NetworkReporter.reportNetworkRequest(params).  sent: the arguments of its
\* coreInstance.send calls, `from` telling the metric it built from the
\* object beforeSend returned; addErrors: its coreInstance.addError calls;
\* log: what the beforeSend branch wrote to the console; threw: whether the
\* call threw into the handler that made it.
ReportNetworkRequest(o, params) ==
  LET over == /\ Truthy(Opt(o, "enableDurationCheck"))
              /\ params.duration > ThresholdOr2000(o)
      apiMetric ==
        [from |-> "original", url |-> params.url, status |-> params.status,
         duration |-> params.duration, success |-> params.success,
         errorMessage |-> IF over /\ params.errorMessage.text = Undef
                            THEN Msg("overThresholdUrl")
                            ELSE params.errorMessage,
         requestType |-> params.type, businessCode |-> params.businessCode,
         httpTraceId |-> params.httpTraceId, timeout |-> over,
         timeoutThreshold |-> IF over THEN Opt(o, "durationThreshold")
                              ELSE UndefNum]
      hook == Opt(o, "beforeSend")
      finalMetric == IF hook = "returnsObject"
                       THEN [apiMetric EXCEPT !.from = "hook"]
                       ELSE apiMetric
  IN [params |-> params,
      sent |-> << finalMetric >>,
      addErrors |->
        (IF over /\ params.errorMessage.text = Undef THEN 1 ELSE 0)
        + (IF ~params.success /\ params.errorMessage.text # Undef
             THEN 1 ELSE 0),
      log |-> CASE hook = "returnsOther" -> "warn"
                [] hook = "throws" -> "error"
                [] OTHER -> "none",
      threw |-> FALSE]

\* the API metric as Tracker.send receives it: NetworkReporter has set
\* timestamp, project and pageUrl
ApiSource(metric) ==
  [name |-> metric.from, sessionId |-> Undef, timestamp |-> DateNow,
   pageUrl |-> PageHref, project |-> config.project, appVersion |-> Undef]

(* ===================== network plugin: actions ======================== *)
\* the constructor Tracker.use is given
NetworkCtor ==
  [name |-> "network", setUpThrows |-> FALSE, destroyThrows |-> FALSE]

\* new NetworkPlugin(options): this.options = { ...DEFAULT_OPTIONS, ...options }
NetworkPluginNew(options) == Spread(DEFAULT_OPTIONS, options)

\* BasePlugin.setUp(coreInstance, options = {}): this.options = options
SetUp(constructed, options) == options

\* the Tracker and the Reporter, which a network handler leaves alone unless
\* it reports a record
trackerVars == << config, metricCache, reporterSet, rConfig, isSending,
                  destroyed, pending, cfgCalls, nextId, hist, dropped >>

\* Tracker.use([[NetworkPlugin, supplied]]): `new PluginCtor()` without
\* arguments, then setUp(tracker, supplied), whose init patches fetch and
\* XMLHttpRequest.  An array without options calls setUp with undefined,
\* which its default parameter turns into {}.
NetUse(supplied) ==
  /\ made.tracker /\ ~netPlugin.registered
  /\ LET r == UseResult(plugins, instances, << NetworkCtor >>)
         opts == SetUp(NetworkPluginNew(NoOptions), supplied)
     IN /\ plugins' = r.plugins
        /\ instances' = r.instances
        /\ netPlugin' = [registered |-> TRUE, options |-> opts,
                         supplied |-> supplied,
                         fetch |-> Opt(opts, "enableFetch") # "false",
                         xhr |-> Opt(opts, "enableXhr") # "false"]
  /\ last' = NoLast("use")
  /\ UNCHANGED << trackerVars, host, made, initialized, trackerDestroyed,
                  exchange, reports, perfPlugin >>

\* The part of a hook up to the call of the original function: filter,
\* trace id, then fetch / send.
Hooked(source, url, draw) ==
  LET f == FilterMatched(netPlugin.options, url, draw)
      t == TraceAttach(source, netPlugin.options, url)
  IN /\ exchange.phase = "idle"
     /\ exchange' =
          IF f # "none"
            THEN [NoExchange EXCEPT !.phase = "passed", !.source = source,
                    !.url = url, !.draw = draw, !.filter = f,
                    !.host = "pending"]
            ELSE [NoExchange EXCEPT !.phase = "sent", !.source = source,
                    !.url = url, !.draw = draw, !.traceId = t.traceId,
                    !.outgoing = t.outgoing, !.host = "pending"]
     /\ last' = NoLast(source)
     /\ UNCHANGED << trackerVars, lifeVars, netPlugin, reports, perfPlugin >>

\* fetchProxy(input, init) up to `await this.originalFetch(input, init)`
FetchProxy(url, draw) ==
  /\ netPlugin.fetch
  /\ Hooked("fetch", url, draw)

\* the patched XMLHttpRequest.prototype.send after open(method, url)
XhrSend(url, draw) ==
  /\ netPlugin.xhr
  /\ Hooked("xhr", url, draw)

\* callRequestComplete / onRequestComplete(info): NetworkPlugin hands the
\* record to NetworkReporter, which hands the metric to Tracker.send
Complete(rec) ==
  LET r == ReportNetworkRequest(netPlugin.options, rec)
  IN /\ reports' = Append(reports, r)
     /\ IF r.sent = <<>>
          THEN /\ last' = NoLast("report")
               /\ UNCHANGED << trackerVars, lifeVars >>
          ELSE SendMetrics(<< ApiSource(r.sent[1]) >>, FALSE, 0)

\* The rest of fetchProxy once the original fetch has settled with `out`:
\* the try block, the catch that rethrows, and the finally block, which
\* always reports.  The page gets the response or the rejection itself.
FetchSettled(out) ==
  /\ exchange.source = "fetch" /\ exchange.phase = "sent"
  /\ exchange' = [exchange EXCEPT !.phase = "done", !.outcome = out,
                                  !.host = out.kind]
  /\ Complete(FetchRecord(netPlugin.options, exchange, out))
  /\ UNCHANGED << netPlugin, perfPlugin >>

\* the error, abort or timeout listener of a monitored XHR
XhrFailure(kind, duration) ==
  /\ exchange.source = "xhr" /\ exchange.phase = "sent"
  /\ exchange' = [exchange EXCEPT !.phase = "failed",
                    !.outcome = [NoOutcome EXCEPT !.kind = kind,
                                                  !.duration = duration]]
  /\ Complete(XhrFailureRecord(exchange, kind, duration))
  /\ UNCHANGED << netPlugin, perfPlugin >>

\* onLoadEnd, the loadend listener of a monitored XHR: after a load with
\* the response `out`, or after a failure, when the XHR has status 0 and no
\* response headers
XhrLoadEnd(out) ==
  /\ exchange.source = "xhr"
  /\ \/ exchange.phase = "sent" /\ out.kind = "load"
     \/ exchange.phase = "failed" /\ out = exchange.outcome
  /\ exchange' = [exchange EXCEPT !.phase = "done", !.outcome = out,
                                  !.host = out.kind]
  /\ IF IsMTSIForbidRequest(
          Opt(netPlugin.options, "ignoreMTSIForbidRequest"), out)
       THEN /\ last' = NoLast("loadend")
            /\ UNCHANGED << trackerVars, lifeVars, reports >>
       ELSE Complete(XhrLoadEndRecord(netPlugin.options, exchange, out))
  /\ UNCHANGED << netPlugin, perfPlugin >>

(* ================== network plugin: specifications ==================== *)
\* createTracker({ project, reportUrl? }), createReporter({ reportUrl: "u1" })
\* and tracker.setReporter(reporter) have run; the plugin is not registered.
InitNetwork(projects, trackerUrls) ==
  /\ config \in { NewTrackerConfig([project |-> p, reportUrl |-> u,
                                    headers |-> Undef]) :
                    p \in projects, u \in trackerUrls }
  /\ metricCache = <<>>
  /\ reporterSet = TRUE
  /\ rConfig = [reportUrl |-> "u1", reportImmediately |-> FALSE,
                headers |-> Undef]
  /\ isSending = FALSE
  /\ destroyed = FALSE
  /\ pending = <<>>
  /\ nextId = 1
  /\ cfgCalls = 0
  /\ hist = [id \in 1..MaxMetrics |-> [last |-> "none", prev |-> "none"]]
  /\ dropped = {}
  /\ last = NoLast("init")
  /\ host = "tracker"
  /\ made = [tracker |-> TRUE, reporter |-> TRUE]
  /\ initialized = FALSE
  /\ plugins = <<>>
  /\ instances = <<>>
  /\ trackerDestroyed = FALSE
  /\ NetIdle

\* durations of an exchange, in ms
Durations == {1500, 2000, 2500}
\* status 0 is an opaque response or an XHR without a response
Statuses == {0, 200, 400, 403}

\* Filtering: every combination of the four filter options, every URL, a
\* Tracker with and without a reportUrl of its own; exchanges that are let
\* through end with a 200.
FilterOptions ==
  { [NoOptions EXCEPT !.ignoreMoniterRequest = a, !.resourceReg = b,
                      !.filterUrls = c, !.sample = d] :
      a \in {Absent, "false"}, b \in {Absent, "reg"},
      c \in {Absent, "blockList"}, d \in {AbsentNum, 5} }
FilterDraws == {3, 7}
Ok(kind) ==
  [NoOutcome EXCEPT !.kind = kind, !.status = 200, !.duration = 1500]

InitFilter == InitNetwork({Project}, {Undef, "u1"})

NextFilter ==
  \/ \E supplied \in FilterOptions : NetUse(supplied)
  \/ \E url \in NetUrls, draw \in FilterDraws : FetchProxy(url, draw)
  \/ \E url \in NetUrls, draw \in FilterDraws : XhrSend(url, draw)
  \/ FetchSettled(Ok("response"))
  \/ XhrLoadEnd(Ok("load"))

SpecFilter == InitFilter /\ [][NextFilter]_vars

\* Classification: every outcome of an exchange that is not filtered, under
\* options objects that give the duration check and the forbidden-response
\* switch, or the business-code options, or trace correlation, or a
\* beforeSend hook.
ExchangeOptions ==
  { [NoOptions EXCEPT !.enableDurationCheck = a, !.durationThreshold = b,
                      !.ignoreMTSIForbidRequest = c] :
      a \in {Absent, "true"}, b \in {AbsentNum, 0, 1500},
      c \in {Absent, "true", "false"} }
  \cup
  { [NoOptions EXCEPT !.autoBusinessCode = a, !.parseResponse = b,
                      !.ignoreMTSIForbidRequest = c] :
      a \in {Absent, "true"},
      b \in {Absent, "returnsCode", "returnsNothing", "throws"},
      c \in {Absent, "true"} }
  \cup
  { [NoOptions EXCEPT !.enableLogTrace = "true"] }
  \cup
  { [NoOptions EXCEPT !.beforeSend = h, !.enableDurationCheck = a] :
      h \in HookKinds, a \in {Absent, "true"} }

ExchangeUrls == {"same", "cross"}

FetchOutcomes ==
  { [NoOutcome EXCEPT !.kind = "response", !.status = s, !.forbid = f,
                      !.duration = d, !.contentType = c] :
      s \in Statuses, f \in BOOLEAN, d \in Durations, c \in {"json", ""} }
  \cup
  { [NoOutcome EXCEPT !.kind = "reject", !.thrown = t, !.duration = d] :
      t \in {"error", "null"}, d \in Durations }

XhrLoads ==
  { [NoOutcome EXCEPT !.kind = "load", !.status = s, !.forbid = f,
                      !.duration = d, !.contentType = c,
                      !.responseType = r] :
      s \in Statuses, f \in BOOLEAN, d \in Durations, c \in {"json", ""},
      r \in {"", "json"} }

InitExchange == InitNetwork({Project, NonLatinProject}, {"u1"})

NextExchange ==
  \/ \E supplied \in ExchangeOptions : NetUse(supplied)
  \/ \E url \in ExchangeUrls : FetchProxy(url, 0)
  \/ \E url \in ExchangeUrls : XhrSend(url, 0)
  \/ \E out \in FetchOutcomes : FetchSettled(out)
  \/ \E kind \in {"error", "abort", "timeout"}, d \in Durations :
       XhrFailure(kind, d)
  \/ \E out \in XhrLoads : XhrLoadEnd(out)
  \/ exchange.phase = "failed" /\ XhrLoadEnd(exchange.outcome)

SpecExchange == InitExchange /\ [][NextExchange]_vars

(* ================= fetch proxy: the host's request ==================== *)
\* How the page calls fetch(input, init): input is a URL string or a
\* Request object, and the page's own headers are in init.headers, in the
\* Request object, or there are none.
FetchForms ==
  { [input |-> i, headers |-> h] :
      i \in {"url", "request"}, h \in {"none", "init", "request"} }
  \ { [input |-> "url", headers |-> "request"] }

\* The page's own headers on the request the original fetch builds from
\* (input, init).  When the hook has assigned init.headers, these are what
\* `new Headers(init?.headers || {})` copied, and they replace the headers
\* of a Request object given as input; otherwise input and init are the
\* page's.
HeadersSent(form, assigned) ==
  IF form.headers = "none" THEN "none"
  ELSE IF assigned /\ form.headers = "request" THEN "lost"
  ELSE "kept"

\* fetchProxy(input, init) up to the call of the original fetch, with the
\* request as the page made it and as the original fetch receives it
FetchCall(form, url, draw) ==
  LET o == netPlugin.options
      f == FilterMatched(o, url, draw)
      t == TraceAttach("fetch", o, url)
      assigned == f = "none" /\ t.outgoing # Undef
      seen == [form |-> form, originalCalls |-> 1,
               sentHeaders |-> HeadersSent(form, assigned)]
  IN /\ netPlugin.fetch
     /\ exchange.phase = "idle"
     /\ exchange' =
          seen @@
          (IF f # "none"
             THEN [NoExchange EXCEPT !.phase = "passed", !.source = "fetch",
                     !.url = url, !.draw = draw, !.filter = f,
                     !.host = "pending"]
             ELSE [NoExchange EXCEPT !.phase = "sent", !.source = "fetch",
                     !.url = url, !.draw = draw, !.traceId = t.traceId,
                     !.outgoing = t.outgoing, !.host = "pending"])
     /\ last' = NoLast("fetch")
     /\ UNCHANGED << trackerVars, lifeVars, netPlugin, reports, perfPlugin >>

\* a filtered call: `return this.originalFetch(input, init)`, whose promise
\* the page's promise follows
FetchPassed(out) ==
  /\ exchange.source = "fetch" /\ exchange.phase = "passed"
  /\ exchange' = [exchange EXCEPT !.phase = "done", !.outcome = out,
                                  !.host = out.kind]
  /\ last' = NoLast("fetchPassed")
  /\ UNCHANGED << trackerVars, lifeVars, netPlugin, reports, perfPlugin >>

\* Transparency: every form of fetch call, under options that switch trace
\* correlation, the block list and the forbidden-response check, for URLs
\* of the page's origin, of another origin and of the block list.
TransparentOptions ==
  { [NoOptions EXCEPT !.enableLogTrace = a, !.filterUrls = b,
                      !.ignoreMTSIForbidRequest = c] :
      a \in {Absent, "true"}, b \in {Absent, "blockList"},
      c \in {Absent, "true"} }

TransparentOutcomes ==
  { out \in FetchOutcomes : out.duration = 1500 /\ out.contentType = "" }

NextTransparent ==
  \/ \E supplied \in TransparentOptions : NetUse(supplied)
  \/ \E form \in FetchForms, url \in {"same", "cross", "blocked"} :
       FetchCall(form, url, 0)
  \/ \E out \in TransparentOutcomes : FetchSettled(out)
  \/ \E out \in TransparentOutcomes : FetchPassed(out)

SpecTransparent == InitExchange /\ [][NextTransparent]_vars

(* ======================== performance plugin ========================== *)
\* PerformancePluginOptions objects as a host passes them to Tracker.use
PerfOptions ==
  { [autoCollect |-> a, reportTime |-> t] :
      a \in {Absent, "false"},
      t \in {Absent, "load", "beforeunload", "pagehide", "visibilitychange",
             "immediate"} }

\* the constructor Tracker.use is given
PerformanceCtor ==
  [name |-> "performance", setUpThrows |-> FALSE, destroyThrows |-> FALSE]

\* a listener the plugin has added, and its entry in this.eventHandlers
Listener(target, type, handler) ==
  [target |-> target, type |-> type, handler |-> handler]
HandlerEntry(l) == [type |-> l.type, handler |-> l.handler]

\* options.reportTime || 'pagehide'
ReportTimeOrPageHide(o) ==
  IF o.reportTime = Absent \/ Falsy(o.reportTime) THEN "pagehide"
  ELSE o.reportTime

\* collectNavigationTiming: unless the document is complete, a pageshow
\* listener on window that only stores metrics
NavigationListeners(o, ready) ==
  IF o.autoCollect # "false" /\ ~ready
    THEN { Listener("window", "pageshow", "handlePageShow") }
    ELSE {}

\* setupReportTiming: the listener that reports, by reportTime
ReportListeners(o) ==
  LET reportTime == ReportTimeOrPageHide(o)
  IN CASE reportTime = "load" ->
            { Listener("window", "pageshow", "onPageShow") }
       [] reportTime \in {"beforeunload", "pagehide"} ->
            { Listener("window", "pagehide", "onPageHide") }
       [] reportTime = "visibilitychange" ->
            { Listener("document", "visibilitychange", "onVisibilityChange") }
       [] OTHER -> {}

\* Tracker.use([[PerformancePlugin, options]]) while document.readyState is
\* complete (ready) or not: setUp stores the options and runs init
PerfUse(options, ready) ==
  /\ made.tracker /\ ~perfPlugin.registered
  /\ LET r == UseResult(plugins, instances, << PerformanceCtor >>)
         o == SetUp(NoPerfOptions, options)
         added == NavigationListeners(o, ready) \cup ReportListeners(o)
     IN /\ plugins' = r.plugins
        /\ instances' = r.instances
        /\ perfPlugin' =
             [registered |-> TRUE, options |-> o, listeners |-> added,
              eventHandlers |-> { HandlerEntry(l) : l \in added },
              timeout |-> IF ReportTimeOrPageHide(o) = "immediate"
                            THEN "armed" ELSE "null",
              destroyed |-> FALSE]
  /\ last' = NoLast("use")
  /\ UNCHANGED << trackerVars, host, made, initialized, trackerDestroyed,
                  netPlugin, exchange, reports >>

\* the metric reportPerformanceMetrics builds
PerfSource ==
  [name |-> "performance", sessionId |-> Undef, timestamp |-> DateNow,
   pageUrl |-> PageHref, project |-> config.project, appVersion |-> Undef]

\* A browser event or timer has run the plugin's handlers, leaving the
\* plugin as `after`; `reported` says whether reportPerformanceMetrics ran,
\* which calls Tracker.send(performanceMetric).
Handled(op, after, reported) ==
  /\ perfPlugin' = after
  /\ IF reported
       THEN SendMetrics(<< PerfSource >>, FALSE, 0)
       ELSE /\ last' = NoLast(op)
            /\ UNCHANGED << trackerVars, lifeVars >>
  /\ UNCHANGED << netPlugin, exchange, reports >>

\* window fires pageshow.  handlePageShow removes itself; onPageShow
\* reports, and removes itself unless the page comes from the BFCache.
PageShow(persisted) ==
  LET nav == Listener("window", "pageshow", "handlePageShow")
      onPageShow == Listener("window", "pageshow", "onPageShow")
      removed == (IF nav \in perfPlugin.listeners THEN {nav} ELSE {})
                 \cup (IF ~persisted THEN {onPageShow} ELSE {})
  IN /\ perfPlugin.registered
     /\ Handled("pageshow",
                [perfPlugin EXCEPT !.listeners = @ \ removed],
                onPageShow \in perfPlugin.listeners)

\* window fires pagehide
PageHide ==
  /\ perfPlugin.registered
  /\ Handled("pagehide", perfPlugin,
             Listener("window", "pagehide", "onPageHide")
               \in perfPlugin.listeners)

\* document fires visibilitychange, document.visibilityState being hidden
\* or visible
VisibilityChange(hidden) ==
  /\ perfPlugin.registered
  /\ Handled("visibilitychange", perfPlugin,
             /\ Listener("document", "visibilitychange", "onVisibilityChange")
                  \in perfPlugin.listeners
             /\ hidden)

\* the timer of reportTime 'immediate' fires
TimerFires ==
  /\ perfPlugin.timeout = "armed"
  /\ Handled("timer", [perfPlugin EXCEPT !.timeout = "fired"], TRUE)

\* PerformancePlugin.destroy(): window.removeEventListener for every entry
\* of this.eventHandlers, then clearTimeout when this.timeout is set
PerfDestroy ==
  /\ perfPlugin.registered
  /\ perfPlugin' =
       [perfPlugin EXCEPT
          !.listeners = { l \in @ : ~(/\ l.target = "window"
                                      /\ HandlerEntry(l)
                                           \in perfPlugin.eventHandlers) },
          !.timeout = CASE @ = "armed" -> "cleared"
                        [] @ = "fired" -> "null"
                        [] OTHER -> @,
          !.destroyed = TRUE]
  /\ last' = NoLast("pluginDestroy")
  /\ UNCHANGED << trackerVars, lifeVars, netPlugin, exchange, reports >>

\* The page with the PerformancePlugin: the host registers it with any
\* reportTime, the browser fires page events and the timer, and the plugin
\* is destroyed at any time.
NextPerformance ==
  \/ \E options \in PerfOptions, ready \in BOOLEAN : PerfUse(options, ready)
  \/ \E persisted \in BOOLEAN : PageShow(persisted)
  \/ PageHide
  \/ \E hidden \in BOOLEAN : VisibilityChange(hidden)
  \/ TimerFires
  \/ PerfDestroy

SpecPerformance == Init /\ [][NextPerformance]_vars

(* ================= network plugin: enable and destroy ================ *)
\* The page as the plugin finds it.  fetch is the browser's ("native"),
\* the proxy of another monitor instance, which carries the _momo mark
\* ("foreign"), or missing ("none"); XMLHttpRequest is the browser's or
\* carries the mark of another instance.
Global(value) == [value |-> value, momo |-> value = "foreign"]
Pages ==
  { [fetch |-> Global(f), xhr |-> Global(x)] :
      f \in {"native", "foreign", "none"}, x \in {"native", "foreign"} }

\* a handler before its constructor has run
NoHandler == [made |-> FALSE, enabled |-> FALSE, original |-> "none"]

\* new FetchHandler(...) / new XHRHandler(...): the constructor reads the
\* global function
NewHandler(global) ==
  [made |-> TRUE, enabled |-> FALSE, original |-> global.value]

\* FetchHandler.enable() / XHRHandler.enable() on handler h, the global
\* being `global`: the handler and the global it leaves, the cleanup
\* function it returns ("restore" or "noop"), and whether it threw.  The
\* fetch handler reads global.fetch._momo before it tests that fetch is a
\* function, which throws when there is no fetch; it captures the original
\* again when it installs.
Enable(kind, h, global) ==
  IF h.enabled
    THEN [handler |-> h, global |-> global, cleanup |-> "noop",
          threw |-> FALSE]
  ELSE IF kind = "fetch" /\ global.value = "none"
    THEN [handler |-> h, global |-> global, cleanup |-> "none",
          threw |-> TRUE]
  ELSE IF global.momo
    THEN [handler |-> h, global |-> global, cleanup |-> "noop",
          threw |-> FALSE]
  ELSE [handler |-> [h EXCEPT !.enabled = TRUE,
                              !.original = IF kind = "fetch"
                                             THEN global.value ELSE @],
        global |-> [value |-> "proxy", momo |-> TRUE],
        cleanup |-> "restore", threw |-> FALSE]

\* the cleanup function Enable returned, invoked
Cleanup(c, h, global) ==
  IF c = "restore" /\ h.enabled
    THEN [handler |-> [h EXCEPT !.enabled = FALSE],
          global |-> [value |-> h.original, momo |-> FALSE]]
    ELSE [handler |-> h, global |-> global]

\* NetworkPlugin.init on page `page`: enableFetchMonitoring, then
\* enableXhrMonitoring, each pushing the cleanup its handler returns; a
\* throw of the fetch handler's enable ends init
PluginInit(opts, page) ==
  LET wantFetch == Opt(opts, "enableFetch") # "false"
      wantXhr == Opt(opts, "enableXhr") # "false"
      f == Enable("fetch", NewHandler(page.fetch), page.fetch)
      x == Enable("xhr", NewHandler(page.xhr), page.xhr)
      threw == wantFetch /\ f.threw
      doXhr == wantXhr /\ ~threw
  IN [threw |-> threw,
      globals |-> [fetch |-> IF wantFetch THEN f.global ELSE page.fetch,
                   xhr |-> IF doXhr THEN x.global ELSE page.xhr],
      handlers |-> [fetch |-> IF wantFetch THEN f.handler ELSE NoHandler,
                    xhr |-> IF doXhr THEN x.handler ELSE NoHandler],
      cleanups |->
        (IF wantFetch /\ ~threw
           THEN << [kind |-> "fetch", does |-> f.cleanup, calls |-> 0] >>
           ELSE <<>>)
        \o (IF doXhr
              THEN << [kind |-> "xhr", does |-> x.cleanup, calls |-> 0] >>
              ELSE <<>>)]

\* Tracker.use([[NetworkPlugin, supplied]]) on page `page`, with the
\* globals and the cleanup functions of the plugin kept in its record.  A
\* throw of init is caught by Tracker.use, which does not register the
\* plugin.
CleanupUse(supplied, page) ==
  /\ made.tracker /\ ~netPlugin.registered /\ instances = <<>>
  /\ LET opts == SetUp(NetworkPluginNew(NoOptions), supplied)
         i == PluginInit(opts, page)
         r == UseResult(plugins, instances,
                        << [NetworkCtor EXCEPT !.setUpThrows = i.threw] >>)
     IN /\ plugins' = r.plugins
        /\ instances' = r.instances
        /\ netPlugin' =
             [registered |-> ~i.threw, options |-> opts,
              supplied |-> supplied,
              fetch |-> i.handlers.fetch.enabled,
              xhr |-> i.handlers.xhr.enabled,
              globals |-> i.globals, handlers |-> i.handlers,
              cleanups |-> i.cleanups,
              cleanupFunctions |-> [n \in DOMAIN i.cleanups |-> n],
              destroyCalls |-> 0]
        /\ last' = [NoLast("use") EXCEPT
                      !.log = IF i.threw THEN "error" ELSE "none"]
  /\ UNCHANGED << trackerVars, host, made, initialized, trackerDestroyed,
                  exchange, reports, perfPlugin >>

\* this.cleanupFunctions.forEach(cleanup => cleanup()) over the list
\* `todo` of positions in the plugin's cleanups
RECURSIVE RunCleanups(_, _)
RunCleanups(np, todo) ==
  IF todo = <<>> THEN np
  ELSE LET n == Head(todo)
           c == np.cleanups[n]
           r == Cleanup(c.does, np.handlers[c.kind], np.globals[c.kind])
       IN RunCleanups([np EXCEPT !.cleanups[n].calls = @ + 1,
                                 !.handlers[c.kind] = r.handler,
                                 !.globals[c.kind] = r.global],
                      Tail(todo))

\* as NetDestroyed, but the list of cleanup functions is kept
NetDestroyedKeepsList(np) ==
  LET ran == RunCleanups(np, np.cleanupFunctions)
  IN [ran EXCEPT !.fetch = ran.handlers.fetch.enabled,
                 !.xhr = ran.handlers.xhr.enabled,
                 !.destroyCalls = @ + 1]

\* the plugin after NetworkPlugin.destroy(): every cleanup function of the
\* list has run, and the list is a new empty array
NetDestroyed(np) ==
  LET ran == RunCleanups(np, np.cleanupFunctions)
  IN [ran EXCEPT !.fetch = ran.handlers.fetch.enabled,
                 !.xhr = ran.handlers.xhr.enabled,
                 !.cleanupFunctions = <<>>,
                 !.destroyCalls = @ + 1]

\* NetworkPlugin.destroy()
NetDestroy ==
  /\ netPlugin.registered
  /\ netPlugin.destroyCalls < MaxDestroy
  /\ netPlugin' = NetDestroyed(netPlugin)
  /\ last' = NoLast("netDestroy")
  /\ UNCHANGED << trackerVars, lifeVars, exchange, reports, perfPlugin >>

\* enable() called once more on a handler the plugin has made; the caller
\* keeps the cleanup function it returns
EnableAgain(kind) ==
  /\ netPlugin.registered
  /\ netPlugin.handlers[kind].made
  /\ LET r == Enable(kind, netPlugin.handlers[kind], netPlugin.globals[kind])
     IN netPlugin' =
          [netPlugin EXCEPT !.handlers[kind] = r.handler,
                            !.globals[kind] = r.global,
                            ![kind] = r.handler.enabled]
  /\ last' = [NoLast("enable") EXCEPT !.log = kind]
  /\ UNCHANGED << trackerVars, lifeVars, exchange, reports, perfPlugin >>

\* Enable and destroy: the host registers the plugin with fetch and XHR
\* monitoring on or off, on every kind of page, calls enable again and
\* destroys the plugin, also repeatedly.
CleanupOptions ==
  { [NoOptions EXCEPT !.enableFetch = a, !.enableXhr = b] :
      a \in {Absent, "false"}, b \in {Absent, "false"} }

NextCleanup ==
  \/ \E supplied \in CleanupOptions, page \in Pages :
       CleanupUse(supplied, page)
  \/ NetDestroy
  \/ \E kind \in {"fetch", "xhr"} : EnableAgain(kind)

SpecCleanup == InitExchange /\ [][NextCleanup]_vars

(* ============== JS-error plugin: the console.error hook =============== *)
\* JSErrorPluginOptions objects as a host passes them to Tracker.use; the
\* plugin has no defaults of its own
JsErrorOptions ==
  { [captureConsoleError |-> c, errorSampleRate |-> AbsentNum] :
      c \in {"true", Absent} }

\* Tracker.use([[JSErrorPlugin, options]]): the instance is constructed,
\* BasePlugin.setUp stores the options and runs init, which replaces
\* console.error when options.captureConsoleError is truthy
JsErrorUse(options) ==
  /\ instances = <<>>
  /\ instances' = << [name |-> "js-error", setUp |-> TRUE,
                      destroyThrows |-> FALSE, destroyCalls |-> 0,
                      options |-> SetUp(options, options)] >>
  /\ plugins' = MapSet(plugins, "js-error", 1)
  /\ last' = NoLast("use")
  /\ UNCHANGED << netVars, trackerVars, host, made, initialized,
                  trackerDestroyed >>

\* console.error is the plugin's replacement
ConsoleHooked ==
  \E i \in DOMAIN instances :
    /\ instances[i].name = "js-error"
    /\ instances[i].destroyCalls = 0
    /\ Truthy(instances[i].options.captureConsoleError)

\* reportJSError's own sampling:
\* sampleRate !== undefined && Math.random() > sampleRate  returns early
ErrorSampled(o, draw) ==
  o.errorSampleRate \in {AbsentNum, UndefNum} \/ ~(draw > o.errorSampleRate)

\* the metric reportJSError builds: timestamp, project and pageUrl are set
JsErrorSource ==
  [name |-> "jsError", sessionId |-> Undef, timestamp |-> DateNow,
   pageUrl |-> PageHref, project |-> config.project, appVersion |-> Undef]

\* Reporter.send(data, true) as it answers once sendImmediate's finally has
\* cleared isSending
ReporterSendIdle(data) ==
  LET a == IF destroyed THEN Answer(<<>>, "destroyed")
           ELSE IF Falsy(rConfig.reportUrl) THEN Answer(<<>>, "nourl")
           ELSE IF Len(data) = 0 THEN Answer(<<>>, "empty")
           ELSE Answer(<<"fetch">>, "pending")
  IN [batch |-> data, immediately |-> TRUE, env |-> AnyEnv,
      transports |-> a.transports, outcome |-> a.outcome]

\* One call of the replaced console.error by a failure handler of the
\* delivery pipeline, the buffer being `cache`: the original console.error,
\* then reportJSError, which calls Tracker.send(errorMetric, true).  The
\* send pushes the metric and flushes the whole buffer; `busy` says whether
\* the failed fetch still holds isSending.  All error metrics are alike and
\* carry id 0.
ConsoleErrorSend(cache, busy, draw) ==
  LET o == instances[CHOOSE i \in DOMAIN instances :
                       instances[i].name = "js-error"].options
      buffered == cache \o << Enrich(JsErrorSource, 0) >>
      call == IF busy THEN ReporterSend(buffered, TRUE, AnyEnv)
              ELSE ReporterSendIdle(buffered)
  IN IF ~ErrorSampled(o, draw) \/ ~ShouldSample(draw)
       THEN [cache |-> cache, calls |-> <<>>]
       ELSE IF ~reporterSet THEN [cache |-> buffered, calls |-> <<>>]
       ELSE [cache |-> <<>>, calls |-> << call >>]

\* The fetch of pending[i] fails while console.error is replaced.
\* sendImmediate's catch logs through console.error (isSending is still
\* set), its finally clears isSending, the promise rejects, and the catch
\* handler of Tracker.flush logs through console.error and then requeues.
HookedFetchFailure(i, draw) ==
  /\ i \in DOMAIN pending
  /\ LET p == pending[i]
         a == ConsoleErrorSend(metricCache, TRUE, draw)
         c == IF p.byTracker THEN ConsoleErrorSend(a.cache, FALSE, draw)
              ELSE [cache |-> a.cache, calls |-> <<>>]
         cache == IF p.byTracker THEN Requeue(p.batch, c.cache) ELSE c.cache
         calls == a.calls \o c.calls
         started == SelectSeq(calls, LAMBDA x : x.outcome = "pending")
         settled == [id \in DOMAIN hist |->
                       IF p.byTracker /\ id \in Ids(p.batch)
                         THEN Settled(hist[id], "rejected")
                         ELSE hist[id]]
     IN /\ pending' = Remove(pending, i) \o
             [j \in 1..Len(started) |->
                [batch |-> started[j].batch, byTracker |-> TRUE]]
        /\ isSending' = (Len(started) > 0)
        /\ metricCache' = cache
        /\ dropped' = IF p.byTracker
                        THEN dropped \cup
                             ((Ids(p.batch) \cup Ids(c.cache)) \ Ids(cache))
                        ELSE dropped
        /\ hist' = [id \in DOMAIN hist |-> Handed(settled[id], id, calls)]
        /\ last' = [NoLast("fetchFailed") EXCEPT !.calls = calls,
                                                  !.draw = draw]
  /\ UNCHANGED << netVars, lifeVars, cfgCalls, config, reporterSet, rConfig,
                  destroyed, nextId >>

\* a fetch of the Reporter settles, console.error being replaced or not
ConsoleFetchSettle(i, result, draw) ==
  IF ConsoleHooked /\ result # "ok"
    THEN HookedFetchFailure(i, draw)
    ELSE FetchSettle(i, result)

\* The delivery pipeline with the JS-error plugin: the host registers the
\* plugin with or without console.error capture, wires the Reporter,
\* submits metrics and flushes; fetches settle at any time.
NextConsole ==
  \/ \E options \in JsErrorOptions : JsErrorUse(options)
  \/ TrackerSetReporter
  \/ \E srcs \in OneMetric, reportNow \in BOOLEAN :
       TrackerSend(srcs, reportNow, 0)
  \/ TrackerFlush
  \/ \E i \in DOMAIN pending, result \in {"ok", "notok", "throw"},
        draw \in Draws :
       ConsoleFetchSettle(i, result, draw)

SpecConsole == Init /\ [][NextConsole]_vars

\* every fetch the browser has started settles
SpecConsoleLive ==
  /\ SpecConsole
  /\ WF_vars(\E i \in DOMAIN pending, result \in {"ok", "notok", "throw"},
                draw \in Draws :
               ConsoleFetchSettle(i, result, draw))

(* ========================= plugin registry =========================== *)
\* The registry on its own: the host registers plugins of every kind, also
\* two that report the same name and one whose setUp throws, and destroys
\* the Tracker.
RegistryArgs == SeqsOver(PluginCtors, MaxUse)

NextRegistry ==
  \/ \E ctors \in RegistryArgs : TrackerUse(ctors)
  \/ TrackerAddError
  \/ TrackerDestroy

SpecRegistry == Init /\ [][NextRegistry]_vars

(* ============================== claims ================================ *)
Accepted == 1..(nextId - 1)
InBuffer(id) == id \in Ids(metricCache)
InFlight(id) == \E i \in DOMAIN pending : id \in Ids(pending[i].batch)
Delivered(id) == hist[id].last = "ok"
Range(s) == { s[i] : i \in DOMAIN s }
Source(m) == CHOOSE src \in SourceMetrics : src.name = m.src
\* the metrics of the batches the Tracker has handed to Reporter.send: those
\* of the last handler and those whose fetch is outstanding
HandedMetrics ==
  UNION ({ Range(last.calls[i].batch) : i \in DOMAIN last.calls }
         \cup { Range(pending[i].batch) : i \in DOMAIN pending })

\* C1: a batch flushed while an earlier blocking delivery is in flight is
\* reported as rejected and restored, so every metric accepted by
\* Tracker.send is in the buffer, in a delivery in flight, delivered, or
\* dropped by the capacity truncation.  (Checked under Spec; the code
\* answers the concurrent request with a resolved promise.)
C1_NoSilentLoss ==
  \A id \in Accepted :
    InBuffer(id) \/ InFlight(id) \/ Delivered(id) \/ id \in dropped

\* C2 as stated: after a failed delivery of batch F the buffer is F followed
\* by the most recent of the metrics N appended since, cut to the capacity.
C2_KeepsMostRecentNew ==
  [][ (last'.op = "fetchFailed" /\ Len(pending) = 1 /\ pending[1].byTracker)
      => LET kept == Prefix(pending[1].batch, MaxCacheOr50)
         IN metricCache' = kept \o Suffix(metricCache, MaxCacheOr50 - Len(kept))
    ]_vars

\* C2 as amended: after a failed delivery of batch F the buffer is the first
\* (maxCache || 50) metrics of F followed by N: the failed batch first, then
\* the oldest new metrics; the newest are the ones dropped.
C2_KeepsOldestNew ==
  [][ (last'.op = "fetchFailed" /\ Len(pending) = 1 /\ pending[1].byTracker)
      => LET all == pending[1].batch \o metricCache
             cap == IF config.maxCache = 0 THEN DefaultMaxCache
                    ELSE config.maxCache
         IN /\ Len(metricCache') = Min(Len(all), cap)
            /\ \A i \in DOMAIN metricCache' : metricCache'[i] = all[i]
    ]_vars

\* C2 witness: a failed batch was requeued in front of new metrics, one new
\* metric was kept and a newer one was cut off.
C2_TruncatingRequeueSeen ==
  /\ last.op = "fetchFailed"
  /\ Len(metricCache) >= 2
  /\ hist[metricCache[1].id].last = "rejected"
  /\ \E i \in DOMAIN metricCache, d \in dropped :
       /\ hist[metricCache[i].id].last = "none"
       /\ hist[d].last = "none"
       /\ metricCache[i].id < d

\* C3: in non-immediate mode, when navigator.sendBeacon returns false the
\* blocking fetch transport is attempted next, and the image transport only
\* after it.  (Checked under SpecReporter; the code goes to the image.)
C3_BeaconFailureFallsBackToFetch ==
  \A i \in DOMAIN last.calls :
    LET c == last.calls[i]
    IN (c.transports # <<>> /\ c.transports[1] = "beacon" /\ ~c.env.beaconOk)
       => /\ Len(c.transports) >= 2
          /\ c.transports[2] = "fetch"

\* C4: a Tracker.send call is accepted exactly when the random draw is below
\* the configured sampleRate; sampleRate = 0 drops every call, sampleRate = 1
\* drops none.  (Checked under Spec; the code reads sampleRate 0 as 1.0.)
C4_AcceptedIffDrawBelowRate ==
  [][ last'.op = "send"
      => ((nextId' > nextId) <=> (last'.draw < config.sampleRate)) ]_vars

\* C5 as stated: every metric handed to Reporter.send has session id,
\* timestamp, page URL, project and app version populated, and every field
\* the source had set keeps the source's value.
C5_SourceFieldsKept ==
  \A m \in HandedMetrics :
    m.id # 0 =>
      LET src == Source(m)
      IN /\ m.sessionId # Undef /\ m.timestamp # UndefNum /\ m.pageUrl # Undef
         /\ m.project # Undef /\ m.appVersion # Undef
         /\ src.sessionId # Undef => m.sessionId = src.sessionId
         /\ src.timestamp # UndefNum => m.timestamp = src.timestamp
         /\ src.pageUrl # Undef => m.pageUrl = src.pageUrl
         /\ src.project # Undef => m.project = src.project
         /\ src.appVersion # Undef => m.appVersion = src.appVersion

\* C5 as amended: every metric handed to Reporter.send carries the Tracker's
\* session id and project and the appVersion configured on the Tracker
\* (absent when none is configured), whatever the source had set; timestamp
\* and page URL are populated, with the source's value when it is truthy and
\* the capture time / the page's URL otherwise.
C5_EnrichedAsCoded ==
  \A m \in HandedMetrics :
    m.id # 0 =>
      LET src == Source(m)
      IN /\ m.sessionId = SessionId
         /\ m.project = Project
         /\ m.appVersion \in {Undef, ConfigVersion}
         /\ m.appVersion = ConfigVersion => config.appVersion = ConfigVersion
         /\ IF src.timestamp = UndefNum \/ src.timestamp = 0
              THEN m.timestamp > 1000 /\ m.timestamp <= 1000 + m.id
              ELSE m.timestamp = src.timestamp
         /\ m.pageUrl = IF src.pageUrl = Undef \/ src.pageUrl = ""
                          THEN PageHref ELSE src.pageUrl

\* C5 witness: a batch in flight holds a metric whose source had set every
\* field and one whose source had set falsy values.
C5_SourceSetMetricsHanded ==
  \E i \in DOMAIN pending :
    /\ pending[i].byTracker
    /\ \E m \in Range(pending[i].batch) : m.src = "full"
    /\ \E m \in Range(pending[i].batch) : m.src = "zero"

\* C6 as stated: with a Reporter attached, a non-immediate send triggers a
\* flush exactly when the buffer length after its append is >= the
\* configured maxCache.
C6_FlushAtConfiguredMaxCache ==
  [][ (last'.op = "send" /\ nextId' > nextId /\ ~last'.immediate /\ reporterSet)
      => (Len(last'.calls) = 1
          <=> Len(metricCache) + (nextId' - nextId) >= config.maxCache) ]_vars

\* C6 as amended: the same, a configured maxCache of 0 counting as the
\* default 50.
C6_FlushAtMaxCacheOrDefault ==
  [][ (last'.op = "send" /\ nextId' > nextId /\ ~last'.immediate /\ reporterSet)
      => LET cap == IF config.maxCache = 0 THEN DefaultMaxCache
                    ELSE config.maxCache
         IN Len(last'.calls) = 1
            <=> Len(metricCache) + (nextId' - nextId) >= cap ]_vars

\* C6 witness: a non-immediate send whose append reached a maxCache set
\* through setConfig, and which handed the whole buffer to the Reporter.
C6_FlushAtBoundarySeen ==
  /\ last.op = "send" /\ ~last.immediate
  /\ cfgCalls > 0 /\ config.maxCache = MaxCacheCfg
  /\ Len(last.calls) = 1
  /\ Len(last.calls[1].batch) = config.maxCache
  /\ metricCache = <<>>

\* C7: between operations the buffer holds at most maxCache metrics (a
\* maxCache of 0 read as the default).  (Checked under Spec; without a
\* Reporter, or after maxCache is lowered, the buffer exceeds it.)
C7_BufferWithinMaxCache ==
  Len(metricCache) <= MaxCacheOr50

\* C8: Tracker.flush is a no-op when the buffer is empty or no Reporter is
\* attached; otherwise it leaves the buffer empty and calls Reporter.send
\* exactly once, with the whole previous buffer in order and immediate true.
C8_FlushDrainsOnce ==
  [][ last'.op = "flush"
      => IF Len(metricCache) = 0 \/ ~reporterSet
           THEN /\ metricCache' = metricCache
                /\ last'.calls = <<>>
                /\ pending' = pending /\ hist' = hist
           ELSE /\ metricCache' = <<>>
                /\ Len(last'.calls) = 1
                /\ last'.calls[1].batch = metricCache
                /\ last'.calls[1].immediately
                /\ last'.calls[1].transports \in {<<>>, <<"fetch">>} ]_vars

\* C8 witness: a flush handed a buffer of several metrics to the Reporter.
C8_FlushOfSeveralSeen ==
  /\ last.op = "flush"
  /\ Len(last.calls) = 1
  /\ Len(last.calls[1].batch) >= 2
  /\ last.calls[1].outcome = "pending"
  /\ metricCache = <<>>

\* C9: a metric is handed to Reporter.send again only after the earlier
\* batch carrying it was reported as failed; a metric is never both buffered
\* and in flight, never in two outstanding batches, and never twice in the
\* buffer.
C9_NoDuplicateDelivery ==
  /\ \A id \in DOMAIN hist : hist[id].prev \in {"none", "rejected"}
  /\ \A id \in Accepted : ~(InBuffer(id) /\ InFlight(id))
  /\ \A i, j \in DOMAIN pending :
       i # j => Ids(pending[i].batch) \cap Ids(pending[j].batch) = {}
  /\ \A i, j \in DOMAIN metricCache :
       i # j => metricCache[i].id # metricCache[j].id

\* C9 witness: a metric of a failed batch was requeued, handed over again and
\* delivered, and a flush was re-entered while a delivery was pending.
C9_RedeliveryAfterFailureSeen ==
  /\ \E id \in Accepted : hist[id].prev = "rejected" /\ hist[id].last = "ok"
  /\ \E id \in Accepted : hist[id].last = "busy"

\* C10: at most one blocking fetch started by the Reporter is outstanding.
C10_OneFetchInFlight ==
  Len(pending) <= 1

\* C10 witness: an immediate send arrived while a fetch was outstanding and
\* was turned away; another was forced immediate by the configuration.
C10_ConcurrentSendTurnedAway ==
  /\ Len(pending) = 1
  /\ last.op = "reporterSend"
  /\ last.calls[1].outcome = "busy"
  /\ ~last.calls[1].immediately /\ rConfig.reportImmediately

\* C11 as stated: when the fetch of a batch the Tracker flushed throws or
\* answers non-2xx, the outcome of that Reporter.send call is a rejection,
\* nothing is thrown into the host, and the whole failed batch is again at
\* the front of the buffer.
C11_FailedBatchRestoredWhole ==
  [][ (last'.op = "fetchFailed" /\ Len(pending) = 1 /\ pending[1].byTracker)
      => LET F == pending[1].batch
         IN /\ ~last'.threw
            /\ \A id \in Ids(F) : hist'[id].last = "rejected"
            /\ Len(metricCache') >= Len(F)
            /\ SubSeq(metricCache', 1, Len(F)) = F
    ]_vars

\* C11 as amended: the same, the restored batch being cut to its first
\* (maxCache || 50) metrics when it is longer than that capacity; what is
\* restored is at the front of the buffer.
C11_FailedBatchRestoredUpToCapacity ==
  [][ (last'.op = "fetchFailed" /\ Len(pending) = 1 /\ pending[1].byTracker)
      => LET F == pending[1].batch
             cap == IF config.maxCache = 0 THEN DefaultMaxCache
                    ELSE config.maxCache
             n == Min(Len(F), cap)
         IN /\ ~last'.threw
            /\ \A id \in Ids(F) : hist'[id].last = "rejected"
            /\ Len(metricCache') >= n
            /\ SubSeq(metricCache', 1, n) = SubSeq(F, 1, n)
            /\ Len(F) >= cap => Len(metricCache') = cap
    ]_vars

\* C11 witness: the fetch of a batch of two failed and both metrics are back
\* in the buffer, in order, nothing having been cut off.
C11_BatchOfTwoRestoredSeen ==
  /\ last.op = "fetchFailed"
  /\ Len(metricCache) = 2
  /\ metricCache[1].id < metricCache[2].id
  /\ \A i \in 1..2 : hist[metricCache[i].id].last = "rejected"
  /\ dropped = {}

\* C12: a Reporter.send call that finds the Reporter destroyed, or without a
\* reportUrl, attempts no transport (no fetch, no beacon, no image) and
\* starts no fetch; and once destroyed the Reporter stays destroyed through
\* every later operation, setConfig included.
C12_InertWithoutUrlOrAfterDestroy ==
  [][ /\ \A i \in DOMAIN last'.calls :
           (destroyed \/ rConfig.reportUrl \in {Undef, ""})
             => /\ last'.calls[i].transports = <<>>
                /\ last'.calls[i].outcome \in {"destroyed", "nourl"}
                /\ pending' = pending
      /\ destroyed => destroyed'
    ]_vars

\* C12 witness: on a destroyed Reporter that setConfig has given another
\* URL, an immediate send of a metric was refused as destroyed.
C12_SendAfterDestroyAndSetConfigSeen ==
  /\ destroyed /\ cfgCalls > 0 /\ rConfig.reportUrl = "u2"
  /\ last.op = "reporterSend" /\ last.immediate
  /\ Len(last.calls[1].batch) = 1
  /\ last.calls[1].outcome = "destroyed"

TrackerOps == {"send", "flush", "setConfig", "addError", "use", "destroy"}
RefusedOps == {"wmSend", "wmFlush", "wmSetConfig", "wmAddError"}

\* C13: a Tracker flush that meets a live Reporter without reportUrl hands
\* the whole buffer over and leaves the buffer empty; the Reporter attempts
\* no transport and starts no fetch; and the metrics of that flush never
\* come back into the buffer nor are handed over again: they are lost.
C13_FlushWithoutUrlLosesBatch ==
  [][ /\ ( /\ ~destroyed /\ rConfig.reportUrl \in {Undef, ""}
           /\ \/ last'.op \in {"flush", "destroy"}
                 /\ Len(metricCache) > 0 /\ reporterSet
              \/ last'.op = "send" /\ Len(last'.calls) = 1 )
         => /\ Len(last'.calls) = 1
            /\ last'.op # "send" => last'.calls[1].batch = metricCache
            /\ last'.calls[1].outcome = "nourl"
            /\ last'.calls[1].transports = <<>>
            /\ pending' = pending
            /\ metricCache' = <<>>
      /\ \A id \in DOMAIN hist :
           hist[id].last = "nourl"
             => hist'[id].last = "nourl" /\ id \notin Ids(metricCache')
    ]_vars

\* C13 witness: a flush handed two buffered metrics to a Reporter that was
\* constructed without reportUrl; the buffer is empty and nothing is in
\* flight.
C13_BatchLostWithoutUrlSeen ==
  /\ last.op = "flush"
  /\ Len(last.calls) = 1
  /\ Len(last.calls[1].batch) = 2
  /\ last.calls[1].outcome = "nourl"
  /\ metricCache = <<>> /\ pending = <<>>
  /\ cfgCalls = 0

\* C15: Tracker.destroy invokes destroy on every registered plugin, those
\* after a throwing one included, and empties the registry; it hands the
\* buffered metrics to the Reporter in one final flush that still finds the
\* Reporter as it was before the call, and leaves the Reporter destroyed;
\* fetches in flight stay in flight.
C15_DestroyOrder ==
  [][ last'.op = "destroy"
      => /\ \A j \in DOMAIN plugins :
              instances'[plugins[j].inst].destroyCalls
                = instances[plugins[j].inst].destroyCalls + 1
         /\ plugins' = <<>>
         /\ IF Len(metricCache) > 0 /\ reporterSet
              THEN /\ Len(last'.calls) = 1
                   /\ last'.calls[1].batch = metricCache
                   /\ ~destroyed => last'.calls[1].outcome # "destroyed"
              ELSE last'.calls = <<>>
         /\ reporterSet => destroyed'
         /\ Len(pending') >= Len(pending)
         /\ \A i \in DOMAIN pending : pending'[i] = pending[i]
    ]_vars

\* C15 witness: a destroy with two plugins registered, the first of which
\* throws from destroy: both were destroyed, the buffered metric went out
\* in a fetch that is still in flight, and the Reporter is destroyed.
C15_DestroyPastThrowingPluginSeen ==
  /\ last.op = "destroy"
  /\ Len(instances) = 2
  /\ instances[1].destroyThrows /\ instances[1].destroyCalls = 1
  /\ instances[2].destroyCalls = 1
  /\ plugins = <<>>
  /\ Len(last.calls) = 1 /\ last.calls[1].outcome = "pending"
  /\ Len(pending) = 1 /\ destroyed

\* C16: no plugin instance has its destroy invoked more than once; neither
\* Tracker.destroy nor WebMoniter.destroy throws; and a destroy that follows
\* a destroy invokes no plugin's destroy.
C16_DestroyIdempotent ==
  [][ /\ \A i \in DOMAIN instances' : instances'[i].destroyCalls <= 1
      /\ last'.op \in {"destroy", "wmDestroy"} => ~last'.threw
      /\ (last.op \in {"destroy", "wmDestroy"}
            /\ last'.op \in {"destroy", "wmDestroy"})
           => instances' = instances
    ]_vars

\* C16 witness: WebMoniter.destroy was called on an instance whose earlier
\* destroy had destroyed two plugins, one of them throwing.
C16_SecondDestroySeen ==
  /\ host = "facade" /\ ~initialized /\ trackerDestroyed
  /\ last.op = "wmDestroy"
  /\ Len(instances) = 2
  /\ \A i \in DOMAIN instances : instances[i].destroyCalls = 1
  /\ \E i \in DOMAIN instances : instances[i].destroyThrows

\* C17: once destroy has run, a send, flush, setConfig, addError or use on
\* the Tracker or on the facade is logged, throws nothing, leaves buffer,
\* configuration and registry as they are and makes no Reporter.send call.
\* (Checked under SpecUsage; the Tracker keeps no destroyed flag, and
\* WebMoniter.use throws.)
C17_CallsAfterDestroyRejected ==
  [][ (trackerDestroyed
        /\ last'.op \in (TrackerOps \ {"destroy"}) \cup RefusedOps \cup {"wmUse"})
      => /\ ~last'.threw
         /\ last'.log # "none"
         /\ metricCache' = metricCache
         /\ config' = config
         /\ plugins' = plugins
         /\ last'.calls = <<>>
    ]_vars

\* C18: while the facade is not initialised, no handler of the Tracker
\* runs; send, flush, setConfig and addError log the not-initialised error
\* and change nothing; destroy logs nothing and changes nothing; and only
\* init changes the initialised flag.
C18_UninitialisedFacadeIsInert ==
  [][ (host = "facade" /\ ~initialized)
      => /\ last'.op \notin TrackerOps
         /\ last'.op \in RefusedOps
              => /\ last'.log = "notInitialized" /\ ~last'.threw
                 /\ last'.calls = <<>>
                 /\ state' = state
         /\ last'.op = "wmDestroy"
              => /\ last'.log = "none" /\ ~last'.threw
                 /\ state' = state
         /\ last'.op # "wmInit" => ~initialized'
    ]_vars

\* C18 witness: a send on a destroyed facade was refused with the error,
\* the metric buffer of the old Tracker still holding a requeued metric.
C18_SendOnDestroyedFacadeSeen ==
  /\ host = "facade" /\ ~initialized /\ trackerDestroyed
  /\ last.op = "wmSend" /\ last.log = "notInitialized"
  /\ Len(metricCache) = 1

\* C19: when Tracker.setConfig(partial) returns, the Tracker's configuration
\* is the old one overridden by the partial, and the attached Reporter's
\* reportUrl and headers equal the Tracker's.  (Checked under SpecUsage;
\* only a truthy reportUrl of the partial reaches the Reporter.)
C19_ConfigReachesReporter ==
  [][ last'.op = "setConfig"
      => /\ config' = MergeConfig(config, last'.partial)
         /\ reporterSet
              => /\ rConfig'.reportUrl = config'.reportUrl
                 /\ rConfig'.headers = config'.headers
    ]_vars

\* C20: WebMoniter.init with a configuration lacking project throws,
\* constructs nothing and leaves the facade uninitialised; an initialised
\* facade has a project; and no Tracker exists whose configuration lacks a
\* project.  (Checked under SpecUsage; the Tracker's constructor accepts any
\* configuration.)
C20_NoConstructionWithoutProject ==
  [][ /\ (last'.op = "wmInit" /\ last'.threw)
           => state' = state /\ ~initialized'
      /\ initialized' => config'.project \notin {Undef, ""}
      /\ made'.tracker => config'.project \notin {Undef, ""}
    ]_vars

\* C21: WebMoniter.init on an initialised facade only logs a warning and
\* returns: it does not throw, constructs no Tracker and no Reporter, and
\* leaves the configuration, the buffer, the plugins and everything else
\* as they were.  (Checked under SpecUsage.)
C21_SecondInitChangesNothing ==
  [][ (initialized /\ last'.op = "wmInit")
      => /\ state' = state
         /\ ~last'.threw
         /\ last'.log = "alreadyInitialized"
    ]_vars

\* a second init arrives at a facade that holds a buffered metric and whose
\* configuration was updated after construction
C21_SecondInitOnUsedFacadeSeen ==
  /\ initialized
  /\ last.op = "wmInit" /\ last.log = "alreadyInitialized"
  /\ metricCache # <<>>
  /\ config.headers = "h2"

\* the classification records of the exchange
Records == { reports[i].params : i \in DOMAIN reports }
\* whether the status counts as a success
StatusOk(status) == status >= 200 /\ status < 400
\* the documented value of an option of the registered plugin: the supplied
\* one, the default where none was supplied
Documented(k) == Opt(Spread(DEFAULT_OPTIONS, netPlugin.supplied), k)

\* C22: with the duration check enabled, every record whose duration
\* exceeds the threshold (2000 ms unless the host gave one) has success =
\* false and an error message stating that threshold, whatever the status;
\* a record whose duration is at most the threshold is not overridden: its
\* success follows from the status and its message does not mention the
\* threshold.  (Checked under SpecExchange.)
C22_TimeoutOverride ==
  \A rec \in Records :
    Documented("enableDurationCheck") = "true"
    => IF rec.duration > Documented("durationThreshold")
         THEN /\ ~rec.success
              /\ rec.errorMessage =
                   [text |-> "overThreshold",
                    threshold |-> Documented("durationThreshold")]
         ELSE /\ rec.success = StatusOk(rec.status)
              /\ rec.errorMessage.text # "overThreshold"

\* C23: a record without a timeout override has success = true exactly when
\* its status lies in [200, 400); a record with status 0 has success = false
\* and a non-empty error message.  (Checked under SpecExchange.)
C23_SuccessFromStatus ==
  \A rec \in Records :
    /\ rec.errorMessage.text # "overThreshold"
         => rec.success = StatusOk(rec.status)
    /\ rec.status = 0
         => ~rec.success /\ rec.errorMessage.text \notin {Undef, ""}

\* the filter the stated order selects for the exchange: self-report
\* (the URL is the endpoint the Reporter delivers to and
\* ignoreMoniterRequest is not false), allow-list, block-list, sampling
StatedFilter ==
  LET o == netPlugin.supplied
  IN IF o.ignoreMoniterRequest # "false" /\ exchange.url = rConfig.reportUrl
       THEN "selfReport"
     ELSE IF o.resourceReg # Absent /\ exchange.url = "asset"
       THEN "allowList"
     ELSE IF o.filterUrls = "blockList" /\ exchange.url = "blocked"
       THEN "blockList"
     ELSE IF o.sample # AbsentNum /\ exchange.draw > o.sample
       THEN "sample"
     ELSE "none"

\* C24: a request is dropped by the first filter that matches it in the
\* order self-report, allow-list, block-list, sampling; a dropped request
\* yields no record and no metric; in particular a request to the endpoint
\* the Reporter delivers to yields none unless ignoreMoniterRequest is
\* false.  (Checked under SpecFilter.)
C24_FilteredRequestsLeaveNoTrace ==
  exchange.phase # "idle"
  => /\ exchange.filter = StatedFilter
     /\ exchange.filter # "none" => reports = <<>> /\ metricCache = <<>>
     /\ (/\ exchange.url = rConfig.reportUrl
         /\ netPlugin.supplied.ignoreMoniterRequest # "false")
          => reports = <<>> /\ metricCache = <<>>

\* the exchange has ended with a response (fetch resolved, XHR loaded)
Answered ==
  exchange.phase = "done" /\ exchange.outcome.kind \in {"response", "load"}

\* C25: with ignoreMTSIForbidRequest enabled (as it is unless the host
\* turns it off), an exchange answered with status 403 and the
\* x-forbid-reason marker yields no record and no metric, for fetch and for
\* XHR.  (Checked under SpecExchange.)
C25_ForbiddenLeavesNoTrace ==
  (/\ Answered
   /\ Documented("ignoreMTSIForbidRequest") = "true"
   /\ exchange.outcome.status = 403 /\ exchange.outcome.forbid)
  => reports = <<>> /\ metricCache = <<>>

\* C26: an exchange yields at most one record, and so at most one API
\* metric, whatever its terminal events.  (Checked under SpecExchange.)
C26_AtMostOneRecord ==
  Len(reports) <= 1 /\ Len(metricCache) <= 1

\* C27: a record carries a trace id only if log tracing is enabled, the URL
\* has the origin of the page, and the request went out with that id in
\* its M-TRACEID header; so when attaching failed the record has no trace
\* id.  (Checked under SpecExchange.)
C27_TraceIdWasAttached ==
  \A rec \in Records :
    rec.httpTraceId # Undef
    => /\ Documented("enableLogTrace") = "true"
       /\ exchange.url = "same"
       /\ exchange.outgoing = rec.httpTraceId

\* business-code extraction is enabled with a parser of the host, and the
\* response is JSON
JsonToParse ==
  /\ Answered
  /\ netPlugin.supplied.autoBusinessCode = "true"
  /\ netPlugin.supplied.parseResponse # Absent
  /\ exchange.outcome.contentType = "json"
\* what the host's parser yields: a parser that throws yields nothing
ParserResult ==
  IF netPlugin.supplied.parseResponse = "returnsCode" THEN "code" ELSE Undef
\* the hook stops at its forbidden-response check: a 403 with the
\* x-forbid-reason marker, the switch being on (for XHR: not turned off)
ShortCircuited ==
  /\ exchange.outcome.status = 403 /\ exchange.outcome.forbid
  /\ IF exchange.source = "xhr"
       THEN netPlugin.supplied.ignoreMTSIForbidRequest # "false"
       ELSE netPlugin.supplied.ignoreMTSIForbidRequest = "true"
\* the hook reaches the parser: it has not stopped at the forbidden-response
\* check, and the text of the response can be read (an XHR with
\* responseType '' or 'text')
ParserReached ==
  /\ JsonToParse
  /\ ~ShortCircuited
  /\ exchange.source = "xhr" => exchange.outcome.responseType \in {"", "text"}
\* a failing parser does no harm: one record, nothing thrown, the page gets
\* its response
FailingParserContained ==
  (ParserReached /\ ParserResult = Undef)
  => /\ Len(reports) = 1
     /\ ~reports[1].threw
     /\ exchange.host = exchange.outcome.kind

\* C28 as stated: whenever extraction is enabled and the response is JSON,
\* the business code of the record is the parser's result; a parser that
\* throws is caught, the record is emitted once without a business code and
\* the page's outcome is unchanged.
C28_BusinessCodeOfEveryJson ==
  /\ JsonToParse => \A rec \in Records : rec.businessCode = ParserResult
  /\ FailingParserContained

\* C28: the business code of a record is the parser's result when
\* extraction is enabled, the response is JSON and the hook reaches the
\* parser, and is absent otherwise; a parser that throws is caught, the
\* record is emitted once without a business code and the page's outcome
\* is unchanged.  (Checked under SpecExchange.)
C28_BusinessCodeOfReadableJson ==
  /\ \A rec \in Records :
       rec.businessCode = IF ParserReached THEN ParserResult ELSE Undef
  /\ FailingParserContained

\* a throwing parser has met a JSON response, and the record is there
\* without a business code
C28_ThrowingParserSeen ==
  /\ ParserReached
  /\ netPlugin.supplied.parseResponse = "throws"
  /\ Len(reports) = 1
  /\ reports[1].params.businessCode = Undef
  /\ exchange.host = "response"

\* C29: every record passed to reportNetworkRequest leads to exactly one
\* Tracker.send call, with the object beforeSend returned when it returned
\* an object and with the metric built from the record otherwise (no hook,
\* a hook returning undefined, null or a non-object, a hook that throws);
\* nothing is thrown into the handler, and the metric is in the Tracker's
\* buffer.  (Checked under SpecExchange.)
C29_OneMetricPerRecord ==
  /\ Len(metricCache) = Len(reports)
  /\ \A i \in DOMAIN reports :
       LET r == reports[i]
       IN /\ Len(r.sent) = 1
          /\ ~r.threw
          /\ r.sent[1].from =
               IF netPlugin.supplied.beforeSend = "returnsObject"
                 THEN "hook" ELSE "original"
          /\ r.sent[1].url = r.params.url
          /\ r.sent[1].status = r.params.status
          /\ r.sent[1].success = r.params.success
          /\ metricCache[i].src = r.sent[1].from

\* a beforeSend that threw, and the metric of the record in the buffer
C29_ThrowingHookSeen ==
  /\ netPlugin.supplied.beforeSend = "throws"
  /\ Len(reports) = 1
  /\ reports[1].log = "error"
  /\ reports[1].sent[1].from = "original"
  /\ Len(metricCache) = 1

\* the options the claim lists
ListedOptions ==
  {"ignoreMoniterRequest", "maxContentLength", "sample",
   "durationThreshold", "ignoreMTSIForbidRequest", "enableDurationCheck",
   "enableLogTrace"}

\* C30: once Tracker.use has registered the network plugin with an options
\* object, each option of the plugin is the supplied one, or its default if
\* none was supplied: self-report filtering on, maxContentLength 10000,
\* sample 1.0, durationThreshold 2000, forbidden-response ignoring on,
\* duration check off, trace correlation off.  (Checked under
\* SpecExchange.)
C30_DefaultsOverriddenBySupplied ==
  netPlugin.registered
  => \A k \in ListedOptions : Opt(netPlugin.options, k) = Documented(k)


\* the ids of a sequence of metrics, in order
IdSeq(s) == [i \in DOMAIN s |-> s[i].id]

\* C31: sampling is decided once per Tracker.send call.  A call whose draw
\* is not below the sample rate leaves buffer, configuration and Reporter
\* untouched and hands nothing to the Reporter, also when reportNow is true;
\* any other call appends all of its metrics, in order, behind the buffered
\* ones before it decides about a flush.  (Checked under Spec.)
C31_SamplingPerCall ==
  [][ last'.op = "send"
      => IF last'.draw >= SampleRateOr1
           THEN /\ state' = state
                /\ last'.calls = <<>>
           ELSE LET k == nextId' - nextId
                    appended == IF last'.calls = <<>> THEN metricCache'
                                ELSE last'.calls[1].batch
                IN /\ k >= 1
                   /\ IdSeq(appended) =
                        IdSeq(metricCache) \o [i \in 1..k |-> nextId + i - 1]
                   /\ config' = config /\ rConfig' = rConfig ]_vars

\* C31 witness: a call with reportNow true was refused by the sampling while
\* metrics were buffered and a Reporter was attached.
C31_RefusedImmediateSendSeen ==
  /\ last.op = "send"
  /\ last.immediate
  /\ last.draw >= SampleRateOr1
  /\ last.calls = <<>>
  /\ metricCache # <<>>
  /\ reporterSet


\* C32: every metric the Tracker holds or has handed to the Reporter carries
\* the session id the Tracker generated in its constructor, whatever the
\* source metric carried, across sends, flushes, requeues and setConfig
\* calls.  (Checked under SpecEnrich: one Tracker instance.)
C32_OneSessionId ==
  \A m \in HandedMetrics \cup Range(metricCache) : m.sessionId = SessionId

\* C32 witness: a metric whose source carried a session id of its own failed
\* to be delivered, was requeued and, after a setConfig, handed to the
\* Reporter again.
C32_RequeuedForeignSessionSeen ==
  /\ cfgCalls >= 1
  /\ \E i \in DOMAIN last.calls :
       \E m \in Range(last.calls[i].batch) :
         /\ Source(m).sessionId = "src-sess"
         /\ hist[m.id].prev = "rejected"
         /\ hist[m.id].last = "pending"


\* C33: whenever Reporter.send reaches the image transport, the outcome it
\* returns is not a rejection, whatever happens while the image request is
\* built.  (Checked under SpecReporter; sendImage rethrows what it caught.)
C33_ImageNeverRejects ==
  \A i \in DOMAIN last.calls :
    LET c == last.calls[i]
    IN (\E t \in DOMAIN c.transports : c.transports[t] = "image")
       => c.outcome # "rejected"


\* C34: the requeue of a failed delivery starts no delivery, also when it
\* leaves the buffer at capacity: the step in which a fetch fails makes no
\* Reporter.send call and leaves no batch outstanding that was not
\* outstanding before.  Metrics are handed to the Reporter only by a send,
\* a flush or a destroy call.  (Checked under Spec.)
C34_RequeueStartsNoDelivery ==
  [][ /\ last'.op = "fetchFailed"
        => /\ last'.calls = <<>>
           /\ \A j \in DOMAIN pending' :
                \E i \in DOMAIN pending : pending'[j] = pending[i]
           /\ \A id \in DOMAIN hist :
                hist'[id].last = "pending" => hist[id].last = "pending"
      /\ (last'.calls # <<>> \/ Len(pending') > Len(pending))
        => last'.op \in {"send", "flush", "destroy"} ]_vars

\* C34 witness: the fetch of a batch failed, the requeue left the buffer at
\* capacity with the failed batch in front, and nothing is in flight.
C34_RequeueAtCapacitySeen ==
  /\ last.op = "fetchFailed"
  /\ reporterSet
  /\ Len(metricCache) >= MaxCacheOr50
  /\ hist[metricCache[1].id].last = "rejected"
  /\ pending = <<>>


\* C35: a delivery failure does not feed itself: once the host makes no
\* further call (the only steps left are fetches settling), the pipeline
\* comes to rest with no transport attempt outstanding, also when the
\* JS-error plugin captures console.error.  (Checked under SpecConsoleLive;
\* with the capture on, the log line of each failed delivery becomes a
\* metric whose immediate send starts the next fetch.)
C35_FailureLoopEnds ==
  (<>[][last'.op \in {"fetchOk", "fetchFailed"}]_vars)
    => <>[](pending = <<>>)


\* C36: after Tracker.destroy, every plugin instance whose setUp completed
\* during a Tracker.use call has had its destroy invoked exactly once, also
\* when two registered plugins report the same name.  (Checked under
\* SpecRegistry; the Map keeps one instance per name, so the instance a
\* later plugin of the same name replaced is never destroyed.)
C36_EverySetUpInstanceDestroyedOnce ==
  last.op = "destroy"
    => \A i \in DOMAIN instances :
         instances[i].setUp => instances[i].destroyCalls = 1


\* C37: the Reporter's isSending flag is set exactly while a blocking fetch
\* is outstanding: it is cleared when the fetch settles, whatever the
\* result, so a set flag is always cleared again, and an immediate send is
\* turned away as busy only while a fetch is outstanding.  (Checked under
\* SpecReporterLive.)
C37_FlagFollowsFetch ==
  /\ [](isSending <=> pending # <<>>)
  /\ (isSending ~> ~isSending)
  /\ [][ (last'.op = "reporterSend" /\ last'.calls[1].outcome = "busy")
         => pending # <<>> ]_vars

\* C37 witness: an immediate send was accepted, its fetch failed, and the
\* flag is clear with nothing outstanding.
C37_FlagClearedAfterFailureSeen ==
  /\ last.op = "fetchFailed"
  /\ ~isSending
  /\ pending = <<>>
  /\ ~destroyed


\* C38: the fetch proxy is transparent to the page: on every path the
\* original fetch is invoked exactly once, the page gets the response or
\* the rejection of that call, and the request the original fetch receives
\* has all of the page's own headers, the trace headers being the only
\* change.  (Checked under SpecTransparent; headers the page put on a
\* Request object are replaced by the init.headers the hook assigns.)
C38_FetchTransparent ==
  exchange.source = "fetch"
    => /\ exchange.originalCalls = 1
       /\ exchange.sentHeaders =
            (IF exchange.form.headers = "none" THEN "none" ELSE "kept")
       /\ exchange.phase = "done" => exchange.host = exchange.outcome.kind


\* C39: once PerformancePlugin.destroy has run, no page event and no timer
\* of the plugin submits a metric to the Tracker, whatever reportTime was
\* configured.  (Checked under SpecPerformance; the visibilitychange
\* listener is added to document and removed from window, so it stays.)
C39_NoReportAfterDestroy ==
  [][ perfPlugin.destroyed
      => /\ nextId' = nextId
         /\ metricCache' = metricCache ]_vars


\* C40: NetworkPlugin.destroy invokes every cleanup function of its list
\* exactly once, invokes no other, leaves the list empty and does not
\* throw, so a second destroy invokes none; after it, fetch and
\* XMLHttpRequest open/send are the originals that a handler whose cleanup
\* function was in the list captured when it installed its interception,
\* and the globals of any other handler are untouched.  Calling enable on a
\* handler that is enabled installs nothing.  (Checked under SpecCleanup.)
C40_DestroyRestoresOnce ==
  [][ /\ last'.op = "netDestroy"
        => /\ ~last'.threw
           /\ netPlugin'.cleanupFunctions = <<>>
           /\ \A n \in DOMAIN netPlugin.cleanups :
                netPlugin'.cleanups[n].calls =
                  netPlugin.cleanups[n].calls
                  + (IF n \in Range(netPlugin.cleanupFunctions)
                       THEN 1 ELSE 0)
           /\ \A n \in DOMAIN netPlugin'.cleanups :
                netPlugin'.cleanups[n].calls = 1
           /\ \A k \in {"fetch", "xhr"} :
                IF /\ netPlugin.handlers[k].enabled
                   /\ \E n \in Range(netPlugin.cleanupFunctions) :
                        /\ netPlugin.cleanups[n].kind = k
                        /\ netPlugin.cleanups[n].does = "restore"
                  THEN /\ ~netPlugin'.handlers[k].enabled
                       /\ netPlugin'.globals[k].value =
                            netPlugin.handlers[k].original
                       /\ netPlugin'.globals[k].value # "proxy"
                  ELSE /\ netPlugin'.handlers[k] = netPlugin.handlers[k]
                       /\ netPlugin'.globals[k] = netPlugin.globals[k]
      /\ last'.op = "enable"
        => \A k \in {"fetch", "xhr"} :
             netPlugin.handlers[k].enabled
               => /\ netPlugin'.handlers[k] = netPlugin.handlers[k]
                  /\ netPlugin'.globals[k] = netPlugin.globals[k] ]_vars

\* C40 witness: the plugin had installed both interceptions and destroy
\* has run twice: both cleanup functions have been invoked once and fetch
\* and XMLHttpRequest are the browser's.
C40_SecondDestroySeen ==
  /\ last.op = "netDestroy"
  /\ netPlugin.destroyCalls = 2
  /\ Len(netPlugin.cleanups) = 2
  /\ \A n \in DOMAIN netPlugin.cleanups :
       /\ netPlugin.cleanups[n].does = "restore"
       /\ netPlugin.cleanups[n].calls = 1
  /\ netPlugin.globals.fetch = [value |-> "native", momo |-> FALSE]
  /\ netPlugin.globals.xhr = [value |-> "native", momo |-> FALSE]

====
